---- MODULE Spec2Model ----
(***************************************************************************)
(* The authenticated player-record service of the Gamebackend repository:  *)
(* the Express handlers of src/server.js over the mongoose Player model    *)
(* (playerSchema), with bcrypt as the credential codec.                    *)
(*                                                                         *)
(* Strings that the code inspects character by character (usernames, which *)
(* the schema trims, and passwords, which bcrypt turns into a hash string) *)
(* are sequences of one-character strings; "" is << >>.  Every handler is  *)
(* split at the awaits that touch the database, so that requests in        *)
(* flight interleave exactly where Node can interleave them; bcrypt calls  *)
(* touch no shared state and are part of the step that precedes them.      *)
(***************************************************************************)
EXTENDS Integers, Sequences, FiniteSets, TLC

VARIABLES
    players,    \* the players collection, in insertion (natural) order
    nextId,     \* how many ObjectIds the store has generated so far, plus one
    now,        \* the last time read from the server clock (Date.now()), in ticks
    reqs,       \* per connection: the request being handled and its response
    nwrite,     \* requests so far that went on to write to the store
    script,     \* the scripted client: the request it is at, what it was answered
    ui,         \* GameUIManager: currentPlayer, the mirror files, PlayerPrefs
    www,        \* GameBackendManager: per connection, the coroutine's web request
    pm,         \* PlayerManager: currentPlayer and its PlayerPrefs keys
    playersFile,\* models/playerModel.js: the records in data/players.json
    frames      \* per caller of the flat-file store: the call it is in, its locals

\* The state of the clients, which no handler touches.
client == <<script, ui, www, pm>>

\* The flat-file store, which neither the handlers nor the clients touch.
flat == <<playersFile, frames>>

vars == <<players, nextId, now, reqs, nwrite, script, ui, www, pm, playersFile, frames>>

----------------------------------------------------------------------------
(* Bounds of the model. *)

MaxWrites == 3      \* requests of one run that go on to write to the store
MaxIds == 2         \* ObjectIds the store generates in one run
MaxClock == 1       \* last tick of the server clock
MaxSalt == 1        \* distinct salts bcrypt draws
MaxLaterLogins == 2 \* logins the scripted client makes after its delete
MaxGames == 7       \* rounds a mirrored player has finished, won or lost
MaxStart == 2       \* largest score, wins and losses of a mirror at the start
MaxRandom == 4            \* Random.value is one of 0/MaxRandom .. MaxRandom/MaxRandom
MaxFile == 2        \* records the flat-file store holds

\* The connections: one carries the requests that are handled one at a time,
\* and a race between handlers is a race between the requests of two.
Conns == {1, 2}

----------------------------------------------------------------------------
(* Values. *)

\* ObjectIds, in the order the store generates them.
IdNames == << <<"id1">>, <<"id2">>, <<"id3">>, <<"id4">> >>
SaltNames == <<"x", "y", "z">>

Salts == {SaltNames[i] : i \in 1..MaxSalt}
Ids == {IdNames[i] : i \in 1..MaxIds}

Alice == <<"a">>
Bob == <<"b">>
Pw1 == <<"p", "1">>
Pw2 == <<"p", "2">>

PasswordInputs == {Pw1, Pw2}

Has(b, k) == k \in DOMAIN b

\* JavaScript's !v for a request parameter: undefined and "" are falsy.
Falsy(b, k) == ~Has(b, k) \/ b[k] = << >>

\* obj with obj[k] = v, whether or not obj had the key k.
Put(obj, k, v) == [x \in DOMAIN obj \cup {k} |-> IF x = k THEN v ELSE obj[x]]

----------------------------------------------------------------------------
(* The server clock: what new Date() and Date.now() may return, given the   *)
(* last time read.                                                          *)

Times == now..MaxClock

----------------------------------------------------------------------------
(* Credential codec: bcrypt. *)

BcryptPrefix == "$2b$10$"

\* A codec that hands the password back as it got it.
HashPlain(password, salt) == password

\* bcrypt.hash(password, 10) with the salt it drew.
Hash(password, salt) == <<BcryptPrefix, salt>> \o password

\* `const match = bcrypt.compare(...)` without the await: a promise, truthy
\* whatever it resolves to.
CompareUnawaited(password, hash) == TRUE

\* bcrypt.compare(password, hash).
Compare(password, hash) ==
    /\ Len(hash) >= 2
    /\ hash[1] = BcryptPrefix
    /\ SubSeq(hash, 3, Len(hash)) = password

----------------------------------------------------------------------------
(* Record store: the mongoose model Player. *)

RECURSIVE TrimLeft(_)
TrimLeft(s) == IF s # << >> /\ Head(s) = " " THEN TrimLeft(Tail(s)) ELSE s

RECURSIVE TrimRight(_)
TrimRight(s) ==
    IF s # << >> /\ s[Len(s)] = " " THEN TrimRight(SubSeq(s, 1, Len(s) - 1)) ELSE s

\* The schema's `trim: true` setter on username.
Trim(s) == TrimRight(TrimLeft(s))

\* Positions of the documents matching a filter, in natural order.
IndexOfUsername(coll, username) ==
    {i \in 1..Len(coll) : coll[i].username = Trim(username)}

IndexOfId(coll, id) == {i \in 1..Len(coll) : coll[i]._id = id}

First(coll, idx) == IF idx = {} THEN << >> ELSE <<coll[CHOOSE i \in idx : \A j \in idx : i <= j]>>

\* A lookup by a path the schema does not have matches no document.
FindOneNoPath(coll, username) == << >>

\* Player.findOne({ username }): << >> (null) or <<doc>>.
FindOne(coll, username) == First(coll, IndexOfUsername(coll, username))

\* Player.findById(id).
FindById(coll, id) == First(coll, IndexOfId(coll, id))

\* const player = id ? await Player.findById(id) : await Player.findOne({ username })
FindTarget(coll, b) ==
    IF ~Falsy(b, "id") THEN FindById(coll, b.id) ELSE FindOne(coll, b.username)

\* The document Player.create builds: setters and defaults of playerSchema.
NewDoc(id, username, hashed, b, t) ==
    [_id |-> id,
     username |-> Trim(username),
     password |-> hashed,
     email |-> IF Has(b, "email") THEN b.email ELSE "",
     level |-> 1, experience |-> 0, score |-> 0, wins |-> 0, losses |-> 0,
     createdAt |-> t]

\* Player.create on a collection whose username index is not unique.
CreateErrorNoIndex(coll, username) ==
    IF Trim(username) = << >> THEN "Player validation failed: username: Path username is required."
    ELSE ""

\* Player.create's outcome: validation (required username), then the insert
\* under the unique index on username.
CreateError(coll, username) ==
    IF Trim(username) = << >> THEN "Player validation failed: username: Path username is required."
    ELSE IF IndexOfUsername(coll, username) # {} THEN "E11000 duplicate key error collection: players index: username_1"
    ELSE ""

\* A save that writes the whole document as the handler holds it.
SavedDocWhole(stored, doc, dirty) == doc

\* doc.save(): writes the modified paths of doc to the stored document with
\* doc's _id.  (The updatedAt stamp of `timestamps: true`, which no handler
\* reads and no response carries, is left out of the documents.)
SavedDoc(stored, doc, dirty) ==
    [k \in DOMAIN stored \cup dirty |-> IF k \in dirty THEN doc[k] ELSE stored[k]]

Save(coll, doc, dirty) ==
    [i \in 1..Len(coll) |->
        IF coll[i]._id = doc._id THEN SavedDoc(coll[i], doc, dirty) ELSE coll[i]]

\* A deleteOne whose filter matches no document.
DeleteOneNoMatch(coll, doc) == coll

\* doc.deleteOne().
DeleteOne(coll, doc) == SelectSeq(coll, LAMBDA d : d._id # doc._id)

----------------------------------------------------------------------------
(* Responses: res.status(code).json(body). *)

Fail(status, message) == [status |-> status, success |-> FALSE, message |-> message]

Caught(message, error) ==
    [status |-> 500, success |-> FALSE, message |-> message, error |-> error]

Ok(status, message, data) ==
    [status |-> status, success |-> TRUE, message |-> message, data |-> data]

\* `data: player`: the whole document, with its id.
PickAll(doc, keys) == Put(doc, "id", doc._id)

\* JSON.stringify drops the keys whose value is undefined.
Pick(doc, keys) ==
    [k \in {x \in keys : x = "id" \/ x \in DOMAIN doc} |->
        IF k = "id" THEN doc._id ELSE doc[k]]

BasicKeys == {"id", "username", "email", "level", "experience", "score", "wins", "losses"}

LoginKeys == BasicKeys \cup {"lastLoginAt"}

----------------------------------------------------------------------------
(* GameUIManager: the local mirror of the player on the device.             *)

Users == {Alice, Bob}

\* After Awake: no current player, no mirror file, no PlayerPrefs key, no
\* feedback text, the login panel shown; the minigame's fields at their
\* initializers, no opponent coroutine waiting, the restart button hidden,
\* the scene running.
NoUI == [currentPlayer |-> << >>,
         files |-> [u \in Users |-> << >>],
         winRate |-> [u \in Users |-> << >>],
         lastOnline |-> [u \in Users |-> ""],
         feedback |-> << >>,
         panel |-> "login",
         playerHP |-> 5, opponentHP |-> 5, drinksLeft |-> 0, poisonedLeft |-> 0,
         isPlayerTurn |-> TRUE, opponentWaits |-> FALSE, restartButton |-> FALSE,
         running |-> TRUE]

\* A C# float: <<m, e>> is m / 2^e with 2^23 <= m < 2^24, and <<0, 0>> is 0f.
RECURSIVE Pow2(_)
Pow2(n) == IF n = 0 THEN 1 ELSE 2 * Pow2(n - 1)

ZeroF == <<0, 0>>

\* a / b rounded to the nearest integer, a tie to the even one.
RoundHalfEven(a, b) ==
    LET q == a \div b
        r == a % b
    IN IF 2 * r > b \/ (2 * r = b /\ q % 2 = 1) THEN q + 1 ELSE q

\* The float with mantissa m (which rounding may have carried to 2^24).
Carry(m, e) == IF m = Pow2(24) THEN <<Pow2(23), e - 1>> ELSE <<m, e>>

\* The least k from k on with a * 2^k >= b * 2^23.
RECURSIVE Shift(_, _, _)
Shift(a, b, k) == IF a * Pow2(k) >= b * Pow2(23) THEN k ELSE Shift(a, b, k + 1)

\* (float)a / b for 0 <= a <= b, b > 0: the quotient rounded to single precision.
FloatDiv(a, b) ==
    IF a = 0 THEN ZeroF
    ELSE LET k == Shift(a, b, 0)
         IN Carry(RoundHalfEven(a * Pow2(k), b), k)

\* 100f * x for 0 <= x <= 1: the product rounded to single precision.
Float100Times(x) ==
    IF x = ZeroF THEN ZeroF
    ELSE LET n == 100 * x[1]
             s == IF n < Pow2(30) THEN 6 ELSE 7
         IN Carry(RoundHalfEven(n, Pow2(s)), x[2] - s)

\* The quotient taken in int before the conversion to float.
ComputeWinRateIntDiv(pd) ==
    LET total == pd.wins + pd.losses
    IN IF total = 0 THEN ZeroF ELSE Float100Times(FloatDiv(pd.wins \div total, 1))

ComputeWinRate(pd) ==
    LET total == pd.wins + pd.losses
    IN IF total = 0 THEN ZeroF ELSE Float100Times(FloatDiv(pd.wins, total))

\* Mathf.Max without the floor: the second argument as it is.
MathfMaxSecond(a, b) == b

MathfMax(a, b) == IF a >= b THEN a ELSE b

\* The round the current player finished, won or lost: the counters, the
\* mirror file, and the PlayerPrefs keys LastOnline_ and WinRate_.
UpdatePlayerStats(won) ==
    /\ UNCHANGED <<players, nextId, now, reqs, nwrite, script, www, pm, flat>>
    /\ IF ui.currentPlayer = << >> THEN UNCHANGED ui
       ELSE LET cp == ui.currentPlayer[1]
                played == IF won
                          THEN [cp EXCEPT !.score = @ + 1, !.wins = @ + 1]
                          ELSE [cp EXCEPT !.losses = @ + 1, !.score = MathfMax(0, @ - 1)]
            IN /\ cp.wins + cp.losses < MaxGames
               /\ ui' = [ui EXCEPT !.currentPlayer = <<played>>,
                                   !.files[cp.username] = <<played>>,
                                   !.lastOnline[cp.username] = "Just played",
                                   !.winRate[cp.username] = <<ComputeWinRate(played)>>]


\* The list of local accounts: every mirror file is read and its win rate
\* is put under the PlayerPrefs key WinRate_<username>.
RefreshLocalAccountsList ==
    /\ UNCHANGED <<players, nextId, now, reqs, nwrite, script, www, pm, flat>>
    /\ ui' = [ui EXCEPT !.winRate =
                 [u \in Users |-> IF ui.files[u] = << >> THEN ui.winRate[u]
                                  ELSE <<ComputeWinRate(ui.files[u][1])>>]]

----------------------------------------------------------------------------
(* GameBackendManager and PlayerManager before any call.                    *)

\* No coroutine on a connection.  parsed and errored count the invocations
\* of the coroutine's onComplete with the parsed response and with the error
\* response; ok and failed count those of the onComplete that was handed to
\* PlayerManager.
NoCall == [op |-> "none", state |-> "idle", via |-> "none", body |-> [url |-> "none"],
           result |-> "none", parsed |-> 0, errored |-> 0, ok |-> 0, failed |-> 0,
           message |-> "", loggedOut |-> FALSE]

\* PlayerPrefs with none of PlayerManager's keys.
NoPrefs == [file |-> "PlayerPrefs"]

\* PlayerManager after Awake on a device without saved player.
NoPM == [currentPlayer |-> << >>, prefs |-> NoPrefs]

----------------------------------------------------------------------------
(* models/playerModel.js before any call.                                   *)

\* The requests of the process that call the flat-file store.
Callers == {1, 2}

\* A caller that is in no function of the store.  players is the function's
\* local `players`, ret what the last call returned.
NoFrame == [fn |-> "none", pc |-> "idle", playerId |-> << >>, data |-> [fn |-> "none"],
            players |-> << >>, ret |-> [kind |-> "none"]]

----------------------------------------------------------------------------
(* A connection: the request it carries, the handler's position and locals, *)
(* and the response once it is sent.                                        *)

NoResp == [status |-> 0]

Idle == [op |-> "none", pc |-> "idle", body |-> [url |-> "none"],
         player |-> << >>, dirty |-> {}, resp |-> NoResp]

Free(c) == reqs[c].pc = "idle"

\* The handler of request b answers r in the step that received b; player is
\* what its lookup returned.
Answer(c, op, b, player, r) ==
    /\ reqs' = [reqs EXCEPT ![c] = [op |-> op, pc |-> "done", body |-> b,
                                    player |-> player, dirty |-> {}, resp |-> r]]
    /\ nwrite' = nwrite

\* The requests of the scripted client are bounded by its script; nwrite
\* bounds all others.
Cost(c) == IF script.stage > 0 /\ c = 1 THEN 0 ELSE 1

\* The handler of request b goes on to the await at pc with its locals.
Await(c, op, b, pc, player, dirty) ==
    /\ nwrite + Cost(c) <= MaxWrites
    /\ nwrite' = nwrite + Cost(c)
    /\ reqs' = [reqs EXCEPT ![c] = [op |-> op, pc |-> pc, body |-> b,
                                    player |-> player, dirty |-> dirty, resp |-> NoResp]]

\* The handler resumes from its last await and answers r.
Respond(c, r) == reqs' = [reqs EXCEPT ![c].pc = "done", ![c].resp = r]

----------------------------------------------------------------------------
(* POST /api/player/register *)

RegisterUrl == [url |-> "/api/player/register"]

RegisterBodies ==
    {RegisterUrl @@ f : f \in
        {[username |-> Alice, password |-> Pw1],
         [username |-> Alice, password |-> Pw2],
         [username |-> Bob, password |-> Pw1],
         [username |-> <<" ", "a">>, password |-> Pw1],
         [username |-> <<" ">>, password |-> Pw1],
         [username |-> Alice, password |-> Pw1, email |-> "a@x.com"],
         [username |-> << >>, password |-> Pw1],
         [username |-> Alice],
         [password |-> Pw1]}}

RegisterConflict == Fail(409, "Username already exists")

RegisterCreated(doc) == Ok(201, "Player registered successfully", Pick(doc, BasicKeys))

\* Registers in flight that will still ask the store for an ObjectId.
PendingCreates == Cardinality({c \in Conns : reqs[c].pc = "create"})

\* Up to `await Player.create`: validation, the lookup, the 409, bcrypt.hash.
Register(c, b) ==
    /\ Free(c)
    /\ UNCHANGED <<players, nextId, now, client, flat>>
    /\ IF Falsy(b, "username") \/ Falsy(b, "password")
       THEN Answer(c, "register", b, << >>, Fail(400, "Username and password are required"))
       ELSE LET existing == FindOne(players, b.username)
            IN IF existing # << >>
               THEN Answer(c, "register", b, existing, RegisterConflict)
               ELSE /\ nextId + PendingCreates <= MaxIds
                    /\ \E salt \in Salts :
                         Await(c, "register", b, "create",
                               <<[password |-> Hash(b.password, salt)]>>, {})

\* Player.create and the 201, or the catch block's 500.
RegisterCreate(c) ==
    /\ reqs[c].pc = "create"
    /\ UNCHANGED <<nwrite, client, flat>>
    /\ \E t \in Times :
         LET b == reqs[c].body
             err == CreateError(players, b.username)
             doc == NewDoc(IdNames[nextId], b.username, reqs[c].player[1].password, b, t)
         IN IF err # ""
            THEN /\ t = now
                 /\ UNCHANGED <<players, nextId, now, client, flat>>
                 /\ Respond(c, Caught("Registration failed", err))
            ELSE /\ players' = Append(players, doc)
                 /\ nextId' = nextId + 1
                 /\ now' = t
                 /\ Respond(c, RegisterCreated(doc))

----------------------------------------------------------------------------
(* POST /api/player/login *)

LoginUrl == [url |-> "/api/player/login"]

LoginBodies ==
    {LoginUrl @@ f : f \in
        {[username |-> Alice, password |-> Pw1],
         [username |-> Alice, password |-> Pw2],
         [username |-> Bob, password |-> Pw1],
         [username |-> <<" ", "a">>, password |-> Pw1],
         [username |-> Alice],
         [password |-> Pw1]}}

\* A login that tells an unknown handle apart, as the fetch route does.
LoginNoPlayerTold == Fail(404, "Player not found")

LoginNoPlayer == Fail(401, "Invalid username or password")

LoginNoMatch == Fail(401, "Invalid username or password")

LoginOk(doc) == Ok(200, "Login successful", Pick(doc, LoginKeys))

\* Up to `player.lastLoginAt = new Date()`: validation, the lookup, bcrypt.compare.
Login(c, b) ==
    /\ Free(c)
    /\ UNCHANGED <<players, nextId, now, client, flat>>
    /\ IF Falsy(b, "username") \/ Falsy(b, "password")
       THEN Answer(c, "login", b, << >>, Fail(400, "Username and password are required"))
       ELSE LET player == FindOne(players, b.username)
            IN IF player = << >>
               THEN Answer(c, "login", b, player, LoginNoPlayer)
               ELSE IF ~Compare(b.password, player[1].password)
               THEN Answer(c, "login", b, player, LoginNoMatch)
               ELSE Await(c, "login", b, "stamp", player, {})

\* A login that stamps a record once only:
\* `player.lastLoginAt = player.lastLoginAt || new Date()`.
LoginStampOnce(c) ==
    /\ reqs[c].pc = "stamp"
    /\ UNCHANGED <<players, nextId, nwrite, client, flat>>
    /\ \E t \in Times :
         LET doc == reqs[c].player[1]
         IN /\ now' = t
            /\ reqs' = [reqs EXCEPT ![c].pc = "save",
                                    ![c].player = IF Has(doc, "lastLoginAt") THEN <<doc>>
                                                  ELSE <<Put(doc, "lastLoginAt", t)>>,
                                    ![c].dirty = IF Has(doc, "lastLoginAt") THEN {}
                                                 ELSE {"lastLoginAt"}]

\* player.lastLoginAt = new Date(); the document tracks the path as modified
\* when the value differs from the one it was loaded with.
LoginStamp(c) ==
    /\ reqs[c].pc = "stamp"
    /\ UNCHANGED <<players, nextId, nwrite, client, flat>>
    /\ \E t \in Times :
         LET doc == reqs[c].player[1]
             changed == ~Has(doc, "lastLoginAt") \/ doc.lastLoginAt # t
         IN /\ now' = t
            /\ reqs' = [reqs EXCEPT ![c].pc = "save",
                                    ![c].player = <<Put(doc, "lastLoginAt", t)>>,
                                    ![c].dirty = IF changed THEN {"lastLoginAt"} ELSE {}]

\* await player.save() and the 200; save() of a document that is no longer
\* stored throws DocumentNotFoundError, which the catch block answers.
LoginSave(c) ==
    /\ reqs[c].pc = "save"
    /\ reqs[c].op = "login"
    /\ UNCHANGED <<nextId, now, nwrite, client, flat>>
    /\ LET doc == reqs[c].player[1]
       IN IF FindById(players, doc._id) = << >>
          THEN /\ UNCHANGED players
               /\ Respond(c, Caught("Login failed", "No document found for query"))
          ELSE /\ players' = Save(players, doc, reqs[c].dirty)
               /\ Respond(c, LoginOk(doc))

----------------------------------------------------------------------------
(* GET /api/player and POST /api/player/get *)

Query(fields) == [src |-> "query"] @@ fields
Body(fields) == [src |-> "body"] @@ fields
NoFields == [src |-> "none"]

\* GET /api/player reads id, username and password from the query string and,
\* when the query names neither id nor username, from the JSON body instead.
GetParams(b) ==
    IF Falsy(b.query, "id") /\ Falsy(b.query, "username") THEN b.body ELSE b.query

\* { id | username, password } as the fetch and delete routes read them.
TargetFields ==
    {[username |-> Alice, password |-> Pw1],
     [username |-> Alice, password |-> Pw2],
     [username |-> Bob, password |-> Pw1],
     [id |-> IdNames[1], password |-> Pw1],
     [id |-> IdNames[1], password |-> Pw2],
     [id |-> IdNames[2], password |-> Pw1],
     [id |-> IdNames[1], username |-> Bob, password |-> Pw1],
     [username |-> Alice],
     [password |-> Pw1]}

FewTargetFields ==
    {[username |-> Alice, password |-> Pw1],
     [id |-> IdNames[1], password |-> Pw2],
     [username |-> Alice],
     [password |-> Pw1]}

GetBodies ==
    {[url |-> "/api/player", query |-> Query(f), body |-> NoFields] : f \in TargetFields}
    \cup {[url |-> "/api/player", query |-> NoFields,
           body |-> Body([username |-> Alice, password |-> Pw1])],
          [url |-> "/api/player", query |-> Query([password |-> Pw1]),
           body |-> Body([username |-> Alice])]}

PostGetBodies == {[url |-> "/api/player/get"] @@ f : f \in FewTargetFields}

\* The document a fetch, update or delete request names, if any.
Target(coll, p) ==
    IF Falsy(p, "id") /\ Falsy(p, "username") THEN << >> ELSE FindTarget(coll, p)

\* The answers that the fetch, update and delete routes share word for word.
NoPlayer == Fail(404, "Player not found")

NoMatch == Fail(401, "Invalid credentials")

FetchOk(doc) == Ok(200, "Player data retrieved", Pick(doc, LoginKeys))

\* The lookup, the credential check and the answer of both fetch routes.
FetchResponse(coll, p, missing) ==
    LET player == Target(coll, p)
    IN IF Falsy(p, "id") /\ Falsy(p, "username") THEN Fail(400, missing)
       ELSE IF Falsy(p, "password") THEN Fail(401, "Password required")
       ELSE IF player = << >> THEN NoPlayer
       ELSE IF ~Compare(p.password, player[1].password) THEN NoMatch
       ELSE FetchOk(player[1])

\* A handler that looks the record up before it validates the request.
LookedFirst(coll, p, secret) == Target(coll, p)

\* What the handler's lookup returned, if it got as far as the lookup.
Looked(coll, p, secret) == IF Falsy(p, secret) THEN << >> ELSE Target(coll, p)

GetPlayer(c, b) ==
    /\ Free(c)
    /\ UNCHANGED <<players, nextId, now, client, flat>>
    /\ Answer(c, "fetch", b, Looked(players, GetParams(b), "password"),
              FetchResponse(players, GetParams(b), "Provide id or username (query/body)"))

PostPlayerGet(c, b) ==
    /\ Free(c)
    /\ UNCHANGED <<players, nextId, now, client, flat>>
    /\ Answer(c, "fetch", b, Looked(players, b, "password"),
              FetchResponse(players, b, "Provide id or username in body"))

----------------------------------------------------------------------------
(* PUT /api/player *)

\* The fields of the body that the handler copies onto the document.
PlainFields == {"level", "experience", "email", "score", "wins", "losses"}

PutUrl == [url |-> "/api/player"]

Patches ==
    {[level |-> 5],
     [experience |-> 10, email |-> "b@x.com"],
     [score |-> 3, wins |-> 1, losses |-> 1],
     [score |-> -1],
     [password |-> Pw2],
     [level |-> 5, password |-> << >>]}

FewPatches == {[level |-> 5], [password |-> Pw2]}

PutBodies ==
    {PutUrl @@ t @@ f :
        t \in {[id |-> IdNames[1], currentPassword |-> Pw1],
               [username |-> Bob, currentPassword |-> Pw1]},
        f \in Patches}
    \cup {PutUrl @@ t @@ f :
        t \in {[id |-> IdNames[1], currentPassword |-> Pw2],
               [id |-> IdNames[2], currentPassword |-> Pw1],
               [username |-> Alice, currentPassword |-> Pw1]},
        f \in FewPatches}
    \cup {PutUrl @@ t :
        t \in {[id |-> IdNames[1], currentPassword |-> Pw1],
               [id |-> IdNames[1], currentPassword |-> Pw2],
               [username |-> Bob, currentPassword |-> Pw1],
               [id |-> IdNames[1], level |-> 5],
               [currentPassword |-> Pw1, level |-> 5]}}

\* An update that replaces the record: `player.f = f || <default>` for the
\* numeric fields.
AssignedOrDefault(doc, b, salt) ==
    [k \in DOMAIN doc |->
        IF k \in PlainFields /\ Has(b, k) THEN b[k]
        ELSE IF k = "level" THEN 1
        ELSE IF k \in {"experience", "score", "wins", "losses"} THEN 0
        ELSE IF k = "password" /\ ~Falsy(b, "password") THEN Hash(b.password, salt)
        ELSE doc[k]]

\* An update that never changes the password.
AssignedNoPassword(doc, b, salt) ==
    [k \in DOMAIN doc |-> IF k \in PlainFields /\ Has(b, k) THEN b[k] ELSE doc[k]]

\* The document after `if (f !== undefined) player.f = f` for the plain
\* fields and `if (password) player.password = await bcrypt.hash(password, 10)`.
Assigned(doc, b, salt) ==
    [k \in DOMAIN doc |->
        IF k \in PlainFields /\ Has(b, k) THEN b[k]
        ELSE IF k = "password" /\ ~Falsy(b, "password") THEN Hash(b.password, salt)
        ELSE doc[k]]

\* The paths mongoose marks as modified: those assigned a different value.
Modified(doc, edited) == {k \in DOMAIN doc : edited[k] # doc[k]}

\* An update that answers without the record.
PutOkBare(doc) == [status |-> 200, success |-> TRUE, message |-> "Player data updated"]

PutOk(doc) == Ok(200, "Player data updated", Pick(doc, BasicKeys))

\* Up to `await player.save()`: validation, the lookup, the credential check,
\* the assignments.
PutPlayer(c, b) ==
    /\ Free(c)
    /\ UNCHANGED <<players, nextId, now, client, flat>>
    /\ LET player == Looked(players, b, "currentPassword")
       IN IF Falsy(b, "id") /\ Falsy(b, "username")
          THEN Answer(c, "update", b, player, Fail(400, "Provide id or username in request body"))
          ELSE IF Falsy(b, "currentPassword")
          THEN Answer(c, "update", b, player, Fail(401, "currentPassword required"))
          ELSE IF player = << >>
          THEN Answer(c, "update", b, player, NoPlayer)
          ELSE IF ~Compare(b.currentPassword, player[1].password)
          THEN Answer(c, "update", b, player, NoMatch)
          ELSE \E salt \in Salts :
                 LET edited == Assigned(player[1], b, salt)
                 IN Await(c, "update", b, "save", <<edited>>, Modified(player[1], edited))

\* A save that writes the document back when it is no longer stored, as an
\* upsert would.
PutSaveUpsert(c) ==
    /\ reqs[c].pc = "save"
    /\ reqs[c].op = "update"
    /\ UNCHANGED <<nextId, now, nwrite, client, flat>>
    /\ LET doc == reqs[c].player[1]
       IN /\ players' = IF FindById(players, doc._id) = << >>
                        THEN Append(players, doc)
                        ELSE Save(players, doc, reqs[c].dirty)
          /\ Respond(c, PutOk(doc))

\* await player.save() and the 200, or the catch block's 500.
PutSave(c) ==
    /\ reqs[c].pc = "save"
    /\ reqs[c].op = "update"
    /\ UNCHANGED <<nextId, now, nwrite, client, flat>>
    /\ LET doc == reqs[c].player[1]
       IN IF FindById(players, doc._id) = << >>
          THEN /\ UNCHANGED players
               /\ Respond(c, Caught("Failed to update player data", "No document found for query"))
          ELSE /\ players' = Save(players, doc, reqs[c].dirty)
               /\ Respond(c, PutOk(doc))

----------------------------------------------------------------------------
(* DELETE /api/delete/:playerId, DELETE /api/delete, DELETE /api/player *)

DeleteByIdBodies ==
    {[url |-> "/api/delete/:playerId"] @@ f : f \in
        {[id |-> IdNames[1], password |-> Pw1],
         [id |-> IdNames[1], password |-> Pw2],
         [id |-> IdNames[2], password |-> Pw1],
         [id |-> IdNames[1]]}}

DeleteBodies == {[url |-> "/api/delete"] @@ f : f \in TargetFields}

DeletePlayerBodies == {[url |-> "/api/player"] @@ f : f \in FewTargetFields}

DeleteOk == [status |-> 200, success |-> TRUE, message |-> "Player deleted successfully"]

\* Up to `await player.deleteOne()`; needTarget is the 400 of the two routes
\* that read the target from the body.
DeleteStart(c, b, needTarget) ==
    /\ Free(c)
    /\ UNCHANGED <<players, nextId, now, client, flat>>
    /\ LET player == Looked(players, b, "password")
       IN IF needTarget /\ Falsy(b, "id") /\ Falsy(b, "username")
          THEN Answer(c, "delete", b, player, Fail(400, "Provide id or username in body"))
          ELSE IF Falsy(b, "password")
          THEN Answer(c, "delete", b, player, Fail(401, "Password required"))
          ELSE IF player = << >>
          THEN Answer(c, "delete", b, player, NoPlayer)
          ELSE IF ~Compare(b.password, player[1].password)
          THEN Answer(c, "delete", b, player, NoMatch)
          ELSE Await(c, "delete", b, "delete", player, {})

DeleteById(c, b) == DeleteStart(c, b, FALSE)

DeleteFlexible(c, b) == DeleteStart(c, b, TRUE)

DeletePlayer(c, b) == DeleteStart(c, b, TRUE)

\* await player.deleteOne() and the 200.
DeleteFinish(c) ==
    /\ reqs[c].pc = "delete"
    /\ UNCHANGED <<nextId, now, nwrite, client, flat>>
    /\ players' = DeleteOne(players, reqs[c].player[1])
    /\ Respond(c, DeleteOk)

----------------------------------------------------------------------------
(* GET /api/players and POST /api/players/get: the administrative listing *)

\* process.env.ADMIN_PASSWORD || process.env.ADMIN_TOKEN || 'Kate_Admin'
ADMIN_SECRET == <<"Kate_Admin">>

\* req.headers['authorization'].replace(/^Bearer\s+/i, '')
StripBearer(s) == IF s # << >> /\ Head(s) = "Bearer " THEN Tail(s) ELSE s

\* The first truthy of the places, in the order the handler tries them.
RECURSIVE FirstTruthy(_, _)
FirstTruthy(b, keys) ==
    IF keys = << >> THEN << >>
    ELSE LET k == Head(keys)
             v == IF ~Has(b, k) THEN << >>
                  ELSE IF k = "authorization" THEN StripBearer(b[k]) ELSE b[k]
         IN IF v # << >> THEN v ELSE FirstTruthy(b, Tail(keys))

GetPlayersPlaces == <<"adminPassword", "x-admin-password", "x-admin-token", "authorization">>

PostPlayersPlaces ==
    <<"adminPassword", "adminToken", "x-admin-password", "x-admin-token", "authorization">>

GetPlayersBodies ==
    {[url |-> "/api/players"] @@ f : f \in
        {[adminPassword |-> ADMIN_SECRET],
         [adminPassword |-> Pw1],
         [adminPassword |-> << >>, authorization |-> <<"Bearer ", "Kate_Admin">>],
         [authorization |-> <<"Bearer ">>],
         "x-admin-token" :> ADMIN_SECRET}}
    \cup {[url |-> "/api/players"]}

PostPlayersBodies ==
    {[url |-> "/api/players/get"] @@ f : f \in
        {[adminToken |-> ADMIN_SECRET],
         [adminPassword |-> Pw1],
         "x-admin-password" :> ADMIN_SECRET}}
    \cup {[url |-> "/api/players/get"]}

AdminKeys == {"id", "username", "level", "experience", "score", "wins", "losses"}

\* A listing that asks only for some credential.
AdminResponseAnySecret(coll, provided) ==
    IF provided = << >> THEN Fail(401, "Admin credential required")
    ELSE [status |-> 200, success |-> TRUE,
          data |-> [i \in 1..Len(coll) |-> Pick(coll[i], AdminKeys)]]

AdminResponse(coll, provided) ==
    IF provided = << >> THEN Fail(401, "Admin credential required")
    ELSE IF provided # ADMIN_SECRET THEN Fail(403, "Invalid admin credential")
    ELSE [status |-> 200, success |-> TRUE,
          data |-> [i \in 1..Len(coll) |-> Pick(coll[i], AdminKeys)]]

GetPlayers(c, b) ==
    /\ Free(c)
    /\ UNCHANGED <<players, nextId, now, client, flat>>
    /\ Answer(c, "admin", b, << >>, AdminResponse(players, FirstTruthy(b, GetPlayersPlaces)))

PostPlayersGet(c, b) ==
    /\ Free(c)
    /\ UNCHANGED <<players, nextId, now, client, flat>>
    /\ Answer(c, "admin", b, << >>, AdminResponse(players, FirstTruthy(b, PostPlayersPlaces)))

----------------------------------------------------------------------------
(* GET /api/leaderboard *)

DefaultLimit == 10
MaxLimit == 50

DigitChars == <<"0", "1", "2", "3", "4", "5", "6", "7", "8", "9">>

IsDigit(ch) == \E d \in 1..10 : DigitChars[d] = ch

DigitValue(ch) == (CHOOSE d \in 1..10 : DigitChars[d] = ch) - 1

\* The value of the longest prefix of s made of digits, continuing from acc;
\* seen says whether a digit has been read.  << >> is NaN.
RECURSIVE ParseDigits(_, _, _)
ParseDigits(s, acc, seen) ==
    IF s # << >> /\ IsDigit(Head(s))
    THEN ParseDigits(Tail(s), 10 * acc + DigitValue(Head(s)), TRUE)
    ELSE IF seen THEN <<acc>> ELSE << >>

\* parseInt(s, 10): leading white space, an optional sign, then digits.
ParseInt(s) ==
    LET t == TrimLeft(s)
    IN IF t # << >> /\ Head(t) = "-"
       THEN LET r == ParseDigits(Tail(t), 0, FALSE)
            IN IF r = << >> THEN << >> ELSE <<0 - r[1]>>
       ELSE IF t # << >> /\ Head(t) = "+" THEN ParseDigits(Tail(t), 0, FALSE)
       ELSE ParseDigits(t, 0, FALSE)

Min(a, b) == IF a <= b THEN a ELSE b

\* A limit that is not clamped: `Number.isFinite(limitRaw) && limitRaw > 0 ? limitRaw : 10`.
LimitUnclamped(b) ==
    LET limitRaw == IF Has(b, "limit") THEN ParseInt(b.limit) ELSE << >>
    IN IF limitRaw # << >> /\ limitRaw[1] > 0 THEN limitRaw[1] ELSE DefaultLimit

\* Number.isFinite(limitRaw) && limitRaw > 0 ? Math.min(limitRaw, 50) : 10
Limit(b) ==
    LET limitRaw == IF Has(b, "limit") THEN ParseInt(b.limit) ELSE << >>
    IN IF limitRaw # << >> /\ limitRaw[1] > 0 THEN Min(limitRaw[1], MaxLimit) ELSE DefaultLimit

LeaderboardBodies ==
    {[url |-> "/api/leaderboard", limit |-> l] :
        l \in {<<"1">>, <<"0">>, <<"-", "3">>, <<"6", "0">>, <<"x">>, <<"2", "x">>}}
    \cup {[url |-> "/api/leaderboard"]}

\* The orders .sort({ score: -1 }) may return the collection in: MongoDB
\* fixes no order among documents with equal sort keys.
SortedByScore(coll) ==
    {p \in [1..Len(coll) -> 1..Len(coll)] :
        /\ \A i, j \in 1..Len(coll) : i # j => p[i] # p[j]
        /\ \A i, j \in 1..Len(coll) : i < j => coll[p[i]].score >= coll[p[j]].score}

Leaderboard(c, b) ==
    /\ Free(c)
    /\ UNCHANGED <<players, nextId, now, client, flat>>
    /\ \E p \in SortedByScore(players) :
         Answer(c, "leaderboard", b, << >>,
                [status |-> 200, success |-> TRUE,
                 data |-> [i \in 1..Min(Limit(b), Len(players)) |->
                             [username |-> players[p[i]].username,
                              score |-> players[p[i]].score]]])

----------------------------------------------------------------------------
(* The response has been sent and read; the connection takes the next request. *)

Close(c) ==
    /\ reqs[c].pc = "done"
    /\ reqs' = [reqs EXCEPT ![c] = Idle]
    /\ UNCHANGED <<players, nextId, now, nwrite, client, flat>>

----------------------------------------------------------------------------

Init ==
    /\ players = << >>
    /\ nextId = 1
    /\ now = 0
    /\ reqs = [c \in Conns |-> Idle]
    /\ nwrite = 0
    /\ script = [stage |-> 0, id |-> << >>, wrong |-> NoResp]
    /\ ui = NoUI
    /\ www = [c \in Conns |-> NoCall]
    /\ pm = NoPM
    /\ playersFile = << >>
    /\ frames = [k \in Callers |-> NoFrame]

\* Requests handled one at a time, over the whole range of request bodies.
Next ==
    \/ \E b \in RegisterBodies : Register(1, b)
    \/ RegisterCreate(1)
    \/ \E b \in LoginBodies : Login(1, b)
    \/ LoginStamp(1)
    \/ LoginSave(1)
    \/ \E b \in GetBodies : GetPlayer(1, b)
    \/ \E b \in PostGetBodies : PostPlayerGet(1, b)
    \/ \E b \in PutBodies : PutPlayer(1, b)
    \/ PutSave(1)
    \/ \E b \in DeleteByIdBodies : DeleteById(1, b)
    \/ \E b \in DeleteBodies : DeleteFlexible(1, b)
    \/ \E b \in DeletePlayerBodies : DeletePlayer(1, b)
    \/ DeleteFinish(1)
    \/ \E b \in GetPlayersBodies : GetPlayers(1, b)
    \/ \E b \in PostPlayersBodies : PostPlayersGet(1, b)
    \/ \E b \in LeaderboardBodies : Leaderboard(1, b)
    \/ Close(1)

Spec == Init /\ [][Next]_vars

----------------------------------------------------------------------------
(* Requests in flight together on all connections, over the requests that   *)
(* concern one handle.                                                      *)

ConcRegisterBodies ==
    {RegisterUrl @@ f : f \in
        {[username |-> Alice, password |-> Pw1],
         [username |-> <<" ", "a">>, password |-> Pw2]}}

ConcLoginBodies ==
    {LoginUrl @@ f : f \in
        {[username |-> Alice, password |-> Pw1],
         [username |-> Alice, password |-> Pw2],
         [username |-> Bob, password |-> Pw1]}}

ConcGetBodies ==
    {[url |-> "/api/player", query |-> Query(f), body |-> NoFields] : f \in
        {[username |-> Alice, password |-> Pw2],
         [username |-> Bob, password |-> Pw1]}}

ConcPutBodies ==
    {PutUrl @@ f : f \in
        {[id |-> IdNames[1], currentPassword |-> Pw1, level |-> 5],
         [id |-> IdNames[1], currentPassword |-> Pw1, score |-> 3, wins |-> 1, losses |-> 1],
         [id |-> IdNames[1], currentPassword |-> Pw1, password |-> Pw2],
         [id |-> IdNames[1], currentPassword |-> Pw2, level |-> 5]}}

ConcDeleteBodies ==
    {[url |-> "/api/delete/:playerId"] @@ f : f \in
        {[id |-> IdNames[1], password |-> Pw1],
         [id |-> IdNames[1], password |-> Pw2]}}

NextConc ==
    \/ \E c \in Conns, b \in ConcRegisterBodies : Register(c, b)
    \/ \E c \in Conns : RegisterCreate(c)
    \/ \E c \in Conns, b \in ConcLoginBodies : Login(c, b)
    \/ \E c \in Conns : LoginStamp(c)
    \/ \E c \in Conns : LoginSave(c)
    \/ \E c \in Conns, b \in ConcGetBodies : GetPlayer(c, b)
    \/ \E c \in Conns, b \in ConcPutBodies : PutPlayer(c, b)
    \/ \E c \in Conns : PutSave(c)
    \/ \E c \in Conns, b \in ConcDeleteBodies : DeleteById(c, b)
    \/ \E c \in Conns : DeleteFinish(c)
    \/ \E c \in Conns : Close(c)

SpecConc == Init /\ [][NextConc]_vars

----------------------------------------------------------------------------
(* One client that registers alice, logs in with a wrong and with the right *)
(* password, updates and deletes the record by the id it was given, and     *)
(* then logs in again and again, while another connection carries requests  *)
(* that concern bob.                                                        *)

LastStage == 5 + MaxLaterLogins

LoginStages == {2, 3} \cup 6..LastStage

ScriptBody ==
    CASE script.stage = 1 ->
           RegisterUrl @@ [username |-> Alice, password |-> Pw1, email |-> "a@x.com"]
      [] script.stage = 2 -> LoginUrl @@ [username |-> Alice, password |-> Pw2]
      [] script.stage = 4 ->
           PutUrl @@ [id |-> script.id, currentPassword |-> Pw1, level |-> 5]
      [] script.stage = 5 ->
           [url |-> "/api/delete/:playerId", id |-> script.id, password |-> Pw1]
      [] OTHER -> LoginUrl @@ [username |-> Alice, password |-> Pw1]

\* The client reads the response, keeps the id of the record it registered
\* and the answer to its wrong password, and moves on.
Advance ==
    /\ reqs[1].pc = "done"
    /\ script.stage \in 1..LastStage
    /\ script' = [stage |-> script.stage + 1,
                  id |-> IF script.stage = 1 /\ Has(reqs[1].resp, "data")
                         THEN reqs[1].resp.data.id ELSE script.id,
                  wrong |-> IF script.stage = 2 THEN reqs[1].resp ELSE script.wrong]
    /\ reqs' = [reqs EXCEPT ![1] = Idle]
    /\ UNCHANGED <<players, nextId, now, nwrite, ui, www, pm, flat>>

BobRegisterBodies == {RegisterUrl @@ [username |-> Bob, password |-> Pw1]}

BobLoginBodies ==
    {LoginUrl @@ f : f \in {[username |-> Bob, password |-> Pw1],
                            [username |-> Bob, password |-> Pw2]}}

BobPutBodies ==
    {PutUrl @@ [username |-> Bob, currentPassword |-> Pw1] @@ f : f \in
        {[level |-> 5], [password |-> Pw2]}}

BobDeleteBodies == {[url |-> "/api/delete", username |-> Bob, password |-> Pw1]}

InitE2E ==
    /\ players = << >>
    /\ nextId = 1
    /\ now = 0
    /\ reqs = [c \in Conns |-> Idle]
    /\ nwrite = 0
    /\ script = [stage |-> 1, id |-> << >>, wrong |-> NoResp]
    /\ ui = NoUI
    /\ www = [c \in Conns |-> NoCall]
    /\ pm = NoPM
    /\ playersFile = << >>
    /\ frames = [k \in Callers |-> NoFrame]

NextE2E ==
    \/ script.stage = 1 /\ Register(1, ScriptBody)
    \/ script.stage \in LoginStages /\ Login(1, ScriptBody)
    \/ script.stage = 4 /\ PutPlayer(1, ScriptBody)
    \/ script.stage = 5 /\ DeleteById(1, ScriptBody)
    \/ Advance
    \/ \E b \in BobRegisterBodies : Register(2, b)
    \/ \E b \in BobLoginBodies : Login(2, b)
    \/ \E b \in BobPutBodies : PutPlayer(2, b)
    \/ \E b \in BobDeleteBodies : DeleteFlexible(2, b)
    \/ Close(2)
    \/ \E c \in Conns : RegisterCreate(c)
    \/ \E c \in Conns : LoginStamp(c)
    \/ \E c \in Conns : LoginSave(c)
    \/ \E c \in Conns : PutSave(c)
    \/ \E c \in Conns : DeleteFinish(c)

SpecE2E == InitE2E /\ [][NextE2E]_vars

----------------------------------------------------------------------------
(* A client that changes its password: it registers alice, tries the change *)
(* with a wrong current password, logs in, changes the password, tries      *)
(* every authenticated route with the old password and then with the new    *)
(* one, while another connection carries requests that concern bob.         *)

CredStages == 1..12

CredLoginStages == {3, 5, 9}
CredFetchStages == {6, 10}
CredPutStages == {2, 4, 7, 11}
CredDeleteStages == {8, 12}

\* The password the client presents at each stage.
CredPassword == IF script.stage \in {1, 3, 4} \cup 5..8 THEN Pw1 ELSE Pw2

CredBody ==
    CASE script.stage = 1 -> RegisterUrl @@ [username |-> Alice, password |-> Pw1]
      [] script.stage \in CredLoginStages ->
           LoginUrl @@ [username |-> Alice, password |-> CredPassword]
      [] script.stage \in CredFetchStages ->
           [url |-> "/api/player",
            query |-> Query([id |-> script.id, password |-> CredPassword]),
            body |-> NoFields]
      [] script.stage \in {2, 4} ->
           PutUrl @@ [id |-> script.id, currentPassword |-> CredPassword, password |-> Pw2]
      [] script.stage \in {7, 11} ->
           PutUrl @@ [id |-> script.id, currentPassword |-> CredPassword, level |-> 5]
      [] OTHER ->
           [url |-> "/api/delete/:playerId", id |-> script.id, password |-> CredPassword]

\* The client reads the response, keeps the id of the record it registered,
\* and moves on.
AdvanceCred ==
    /\ reqs[1].pc = "done"
    /\ script.stage \in CredStages
    /\ script' = [script EXCEPT !.stage = script.stage + 1,
                                !.id = IF script.stage = 1 /\ Has(reqs[1].resp, "data")
                                       THEN reqs[1].resp.data.id ELSE script.id]
    /\ reqs' = [reqs EXCEPT ![1] = Idle]
    /\ UNCHANGED <<players, nextId, now, nwrite, ui, www, pm, flat>>

NextCred ==
    \/ script.stage = 1 /\ Register(1, CredBody)
    \/ script.stage \in CredLoginStages /\ Login(1, CredBody)
    \/ script.stage \in CredFetchStages /\ GetPlayer(1, CredBody)
    \/ script.stage \in CredPutStages /\ PutPlayer(1, CredBody)
    \/ script.stage \in CredDeleteStages /\ DeleteById(1, CredBody)
    \/ AdvanceCred
    \/ \E b \in BobRegisterBodies : Register(2, b)
    \/ \E b \in BobPutBodies : PutPlayer(2, b)
    \/ \E b \in BobDeleteBodies : DeleteFlexible(2, b)
    \/ Close(2)
    \/ \E c \in Conns : RegisterCreate(c)
    \/ \E c \in Conns : LoginStamp(c)
    \/ \E c \in Conns : LoginSave(c)
    \/ \E c \in Conns : PutSave(c)
    \/ \E c \in Conns : DeleteFinish(c)

SpecCred == InitE2E /\ [][NextCred]_vars

----------------------------------------------------------------------------
(* The Unity client: GameBackendManager's coroutines, one per connection,   *)
(* and PlayerManager's Register and Login, which hand them a callback.      *)
(* Connection 1 carries the calls made through PlayerManager, connection 2  *)
(* those made on GameBackendManager.                                        *)

\* UnityWebRequest.result of a request that was answered with an HTTP status.
Result(status) == IF status >= 400 THEN "ProtocolError" ELSE "Success"

\* www.error
ErrorText(status) ==
    CASE status = 400 -> "HTTP/1.1 400 Bad Request"
      [] status = 401 -> "HTTP/1.1 401 Unauthorized"
      [] status = 404 -> "HTTP/1.1 404 Not Found"
      [] status = 409 -> "HTTP/1.1 409 Conflict"
      [] status = 500 -> "HTTP/1.1 500 Internal Server Error"
      [] OTHER -> "Cannot connect to destination host"

\* JsonUtility.FromJson into PlayerData: the fields of the class, the other
\* keys of the text dropped, a missing key left at the field's default.
FromJsonPlayerData(data) ==
    [id |-> IF Has(data, "id") THEN data.id ELSE << >>,
     username |-> IF Has(data, "username") THEN data.username ELSE << >>,
     email |-> IF Has(data, "email") THEN data.email ELSE "",
     level |-> IF Has(data, "level") THEN data.level ELSE 0,
     experience |-> IF Has(data, "experience") THEN data.experience ELSE 0]

\* JsonUtility.FromJson into RegisterResponse, LoginResponse, GetPlayerResponse,
\* UpdatePlayerResponse or, without data, DeletePlayerResponse.
FromJson(resp, op) ==
    [success |-> Has(resp, "success") /\ resp.success,
     message |-> IF Has(resp, "message") THEN resp.message ELSE "",
     data |-> IF op # "delete" /\ Has(resp, "data")
              THEN <<FromJsonPlayerData(resp.data)>> ELSE << >>]

\* new XResponse { success = false, message = www.error }
ErrorResponse(error) == [success |-> FALSE, message |-> error, data |-> << >>]

\* A coroutine that only logs the error.
CompletedSilentError(call, result, response) ==
    [call EXCEPT !.state = "completed", !.result = result, !.message = response.message,
                 !.parsed = IF result = "Success" THEN call.parsed + 1 ELSE call.parsed]

\* The coroutine after its yield: onComplete?.Invoke(response) when the result
\* is Success, onComplete?.Invoke(errorResponse) otherwise.
Completed(call, result, response) ==
    [call EXCEPT !.state = "completed", !.result = result, !.message = response.message,
                 !.parsed = IF result = "Success" THEN call.parsed + 1 ELSE call.parsed,
                 !.errored = IF result # "Success" THEN call.errored + 1 ELSE call.errored]

\* The callback PlayerManager hands to Register and Login calls the
\* onComplete it was given: (true, message) after SavePlayerToPrefs,
\* (false, msg) otherwise.
Told(call, response) ==
    IF call.via \notin {"manager", "ui"} THEN call
    ELSE IF response.success /\ response.data # << >>
    THEN [call EXCEPT !.ok = call.ok + 1]
    ELSE [call EXCEPT !.failed = call.failed + 1]

\* A SavePlayerToPrefs that leaves the logged-in flag alone.
SavePlayerToPrefsNoFlag(data) ==
    [currentPlayer |-> <<data>>,
     prefs |-> [player_id |-> data.id, player_username |-> data.username,
                player_email |-> data.email, CurrentUser |-> data.username,
                player_level |-> data.level, player_experience |-> data.experience]
               @@ pm.prefs]

\* SavePlayerToPrefs(PlayerData) and SavePlayerToPrefs(LocalPlayerData)
SavePlayerToPrefs(data) ==
    [currentPlayer |-> <<data>>,
     prefs |-> [player_id |-> data.id, player_username |-> data.username,
                player_email |-> data.email, CurrentUser |-> data.username,
                player_level |-> data.level, player_experience |-> data.experience,
                player_logged_in |-> 1] @@ pm.prefs]

\* ClearPlayerPrefs: the six player_ keys are deleted.
ClearPlayerPrefs(prefs) ==
    [k \in DOMAIN prefs \ {"player_id", "player_username", "player_email", "player_level",
                           "player_experience", "player_logged_in"} |-> prefs[k]]

\* PlayerManager after Logout().
LoggedOut == [currentPlayer |-> << >>, prefs |-> ClearPlayerPrefs(pm.prefs)]

\* GetCurrentPlayer() and IsPlayerLoggedIn() of a PlayerManager m.
GetCurrentPlayer(m) == m.currentPlayer

IsPlayerLoggedIn(m) == Has(m.prefs, "player_logged_in") /\ m.prefs.player_logged_in = 1

\* The list of local accounts redrawn over the mirror files of x.
Listed(x) ==
    [x EXCEPT !.winRate = [u \in Users |-> IF x.files[u] = << >> THEN x.winRate[u]
                                           ELSE <<ComputeWinRate(x.files[u][1])>>]]

\* The callback GameUIManager.RegisterAccount hands to PlayerManager.Register:
\* on success the mirror file of the user, WinRate_<user>, the feedback
\* text, the login panel and the list; else the feedback text.
RegisterAccountDone(call, success, message) ==
    LET user == call.body.username
    IN IF success
       THEN Listed([ui EXCEPT
                !.files[user] = <<[username |-> user, password |-> call.body.password,
                                   email |-> call.body.email, score |-> 0, wins |-> 0,
                                   losses |-> 0, creationDate |-> now,
                                   lastLoggedIn |-> now]>>,
                !.winRate[user] = <<ZeroF>>,
                !.feedback = <<"Account registered!">>,
                !.panel = "login"])
       ELSE [ui EXCEPT !.feedback = <<"Registration failed: ", message>>]

\* The callback GameUIManager.LoginAccount hands to PlayerManager.Login: on
\* success the mirror file is read, or made when there is none, stamped and
\* written, then WinRate_<user>, the feedback text, the opponent name panel
\* and the list; else the feedback text.
LoginAccountDone(call, success, message) ==
    LET user == call.body.username
        loaded == IF ui.files[user] # << >> THEN ui.files[user][1]
                  ELSE [username |-> user, password |-> call.body.password, email |-> "",
                        score |-> 0, wins |-> 0, losses |-> 0, creationDate |-> now,
                        lastLoggedIn |-> now]
    IN IF success
       THEN Listed([ui EXCEPT
                !.files[user] = <<[loaded EXCEPT !.lastLoggedIn = now]>>,
                !.winRate[user] = <<ComputeWinRate(loaded)>>,
                !.feedback = <<"Login successful!">>,
                !.panel = "opponentName"])
       ELSE [ui EXCEPT !.feedback = <<"Login failed: ", message>>]

\* What PlayerManager's callback tells the onComplete it was given.
UICallback(call, response) ==
    LET success == response.success /\ response.data # << >>
    IN IF call.op = "register" THEN RegisterAccountDone(call, success, response.message)
       ELSE LoginAccountDone(call, success, response.message)

\* PlayerPrefs.SetString("CurrentUser", user) of LoginAccount's callback.
UISetCurrentUser(call, m) ==
    IF call.via = "ui" /\ call.op = "login"
    THEN [m EXCEPT !.prefs.CurrentUser = call.body.username]
    ELSE m

\* StartCoroutine(...): the coroutine runs up to `yield return
\* www.SendWebRequest()`.
Send(c, op, via, b) ==
    /\ www[c].state # "sent"
    /\ Free(c)
    /\ www' = [www EXCEPT ![c] = [NoCall EXCEPT !.op = op, !.state = "sent",
                                                !.via = via, !.body = b]]
    /\ UNCHANGED <<players, nextId, now, reqs, nwrite, script, ui, pm, flat>>

\* GameBackendManager.Register, Login, GetPlayerData, UpdatePlayerData and
\* DeletePlayer.
BackendRegister(c, via, username, password, email) ==
    Send(c, "register", via,
         RegisterUrl @@ [username |-> username, password |-> password, email |-> email])

BackendLogin(c, via, username, password) ==
    Send(c, "login", via, LoginUrl @@ [username |-> username, password |-> password])

GetPlayerData(c, playerId) ==
    Send(c, "fetch", "backend",
         [url |-> "/api/player", query |-> Query([id |-> playerId]), body |-> NoFields])

UpdatePlayerData(c, playerId, level, experience, email) ==
    Send(c, "update", "backend",
         PutUrl @@ [id |-> playerId, level |-> level, experience |-> experience,
                    email |-> email])

DeletePlayerCall(c, playerId) ==
    Send(c, "delete", "backend", [url |-> "/api/delete/:playerId", id |-> playerId])

\* PlayerManager.Register and PlayerManager.Login: an empty username or
\* password is told to onComplete at once and no request is made.
Rejected(c, op) ==
    /\ www[c].state # "sent"
    /\ Free(c)
    /\ www' = [www EXCEPT ![c] =
                 [NoCall EXCEPT !.op = op, !.state = "rejected", !.via = "manager",
                                !.failed = 1,
                                !.message = "Username and password cannot be empty"]]
    /\ UNCHANGED <<players, nextId, now, reqs, nwrite, script, ui, pm, flat>>

ManagerRegister(c, username, password, email) ==
    IF username = << >> \/ password = << >>
    THEN Rejected(c, "register")
    ELSE BackendRegister(c, "manager", username, password, email)

ManagerLogin(c, username, password) ==
    IF username = << >> \/ password = << >>
    THEN Rejected(c, "login")
    ELSE BackendLogin(c, "manager", username, password)

\* PlayerManager.UpdatePlayerData: without a current player it only warns;
\* else it edits currentPlayer, saves it to PlayerPrefs and starts the
\* coroutine with OnUpdatePlayerDataComplete as its callback.
ManagerUpdatePlayerData(c, level, experience, email) ==
    IF pm.currentPlayer = << >> \/ pm.currentPlayer[1].id = << >>
    THEN UNCHANGED vars
    ELSE LET local == [pm.currentPlayer[1] EXCEPT
                          !.level = level, !.experience = experience,
                          !.email = IF email # "" THEN email ELSE @]
         IN /\ www[c].state # "sent"
            /\ Free(c)
            /\ pm' = SavePlayerToPrefs(local)
            /\ www' = [www EXCEPT ![c] =
                         [NoCall EXCEPT !.op = "update", !.state = "sent", !.via = "handler",
                                        !.body = PutUrl @@ [id |-> local.id, level |-> level,
                                                            experience |-> experience,
                                                            email |-> local.email]]]
            /\ UNCHANGED <<players, nextId, now, reqs, nwrite, script, ui, flat>>

\* The request reaches the server, whose handler runs to its first await or
\* to its response.
Deliver(c) ==
    /\ www[c].state = "sent"
    /\ \/ www[c].op = "register" /\ Register(c, www[c].body)
       \/ www[c].op = "login" /\ Login(c, www[c].body)
       \/ www[c].op = "fetch" /\ GetPlayer(c, www[c].body)
       \/ www[c].op = "update" /\ PutPlayer(c, www[c].body)
       \/ www[c].op = "delete" /\ DeleteById(c, www[c].body)

\* The handler resumes from an await.  The updates and deletes of this
\* client carry no password and are answered before the handler's save or
\* deleteOne.
Continue(c) ==
    \/ RegisterCreate(c)
    \/ LoginStamp(c)
    \/ LoginSave(c)

\* The two branches after the yield, with the callback they invoke and what
\* PlayerManager's callback (the one of Register and Login, or
\* OnUpdatePlayerDataComplete) does with the response.
Finish(c, result, response) ==
    /\ www' = [www EXCEPT ![c] = Told(Completed(www[c], result, response), response)]
    /\ pm' = IF /\ www[c].via \in {"manager", "handler", "ui"}
                /\ response.success /\ response.data # << >>
             THEN UISetCurrentUser(www[c], SavePlayerToPrefs(response.data[1]))
             ELSE IF www[c].via = "deleter" /\ response.success
             THEN LoggedOut
             ELSE pm
    /\ ui' = IF www[c].via = "ui" THEN UICallback(www[c], response) ELSE ui

\* The response has arrived: the coroutine resumes after its yield.
Resume(c) ==
    /\ www[c].state = "sent"
    /\ reqs[c].pc = "done"
    /\ LET status == reqs[c].resp.status
       IN Finish(c, Result(status),
                 IF Result(status) = "Success" THEN FromJson(reqs[c].resp, www[c].op)
                 ELSE ErrorResponse(ErrorText(status)))
    /\ reqs' = [reqs EXCEPT ![c] = Idle]
    /\ UNCHANGED <<players, nextId, now, nwrite, script, flat>>

\* The request or its response is lost: the coroutine resumes with
\* Result.ConnectionError.
ConnectionError(c) ==
    /\ www[c].state = "sent"
    /\ Finish(c, "ConnectionError", ErrorResponse(ErrorText(0)))
    /\ UNCHANGED <<players, nextId, now, reqs, nwrite, script, flat>>

\* A response that no coroutine waits for is dropped.
Drop(c) == www[c].state # "sent" /\ Close(c)

ClientNames == {Alice, << >>}
ClientPasswords == {Pw1, Pw2}

NextClient ==
    \/ \E u \in ClientNames : ManagerRegister(1, u, Pw1, "a@x.com")
    \/ \E u \in ClientNames, p \in ClientPasswords : ManagerLogin(1, u, p)
    \/ \E e \in {"", "b@x.com"} : ManagerUpdatePlayerData(1, 5, 10, e)
    \/ BackendRegister(2, "backend", Alice, Pw1, "")
    \/ BackendLogin(2, "backend", Alice, Pw1)
    \/ GetPlayerData(2, IdNames[1])
    \/ UpdatePlayerData(2, IdNames[1], 5, 10, "b@x.com")
    \/ DeletePlayerCall(2, IdNames[1])
    \/ \E c \in Conns : Deliver(c)
    \/ \E c \in Conns : Continue(c)
    \/ \E c \in Conns : Resume(c)
    \/ \E c \in Conns : ConnectionError(c)
    \/ \E c \in Conns : Drop(c)

SpecClient == Init /\ [][NextClient]_vars

\* Unity resumes a coroutine in the frame after the request it yielded on
\* is done, and a request is done once its response has arrived or the
\* connection has failed; the server's event loop runs every continuation.
Forward(c) == Deliver(c) \/ Continue(c) \/ Resume(c) \/ ConnectionError(c)

FairSpecClient == SpecClient /\ \A c \in Conns : WF_vars(Forward(c))

----------------------------------------------------------------------------
(* models/playerModel.js: the flat-file store.  Every function is           *)
(* synchronous: from its readFileSync to its return no other code of the    *)
(* process runs.                                                            *)

\* Number.prototype.toString(): the decimal digits of n.
RECURSIVE toString(_)
toString(n) ==
    IF n < 10 THEN <<DigitChars[n + 1]>>
    ELSE toString(n \div 10) \o <<DigitChars[(n % 10) + 1]>>

\* new Date().toISOString() at tick t of the clock.
ToISOString(t) == <<"1970-01-01T00:00:00.">> \o toString(t) \o <<"Z">>

\* The value undefined of a property.
Undefined == "undefined"

\* The properties the callers of this model may pass as undefined.
Optional == {"email"}

\* JSON.stringify(players, null, 2) read back by JSON.parse: a property whose
\* value is undefined is not written.
Stringify(coll) ==
    [i \in 1..Len(coll) |->
        [x \in {y \in DOMAIN coll[i] : ~(y \in Optional /\ coll[i][y] = Undefined)}
            |-> coll[i][x]]]

\* getAllPlayers()
getAllPlayers == playersFile

\* players.find(p => p.id === playerId)
findPlayerById(playerId) ==
    First(getAllPlayers, {i \in 1..Len(getAllPlayers) : getAllPlayers[i].id = playerId})

\* players.find(p => p.username === username)
findPlayerByUsername(username) ==
    First(getAllPlayers, {i \in 1..Len(getAllPlayers) : getAllPlayers[i].username = username})

\* A store whose functions await their file reads, so that other calls run
\* between a call's read and its write.
MayRunAwaited(k) == TRUE

\* A function of the store starts only when no other call is inside one.
MayRun(k) == \A j \in Callers \ {k} : frames[j].pc # "read"

\* A call enters a function of the store, which reads the file.  A run makes
\* at most MaxWrites calls.
Enter(k, fn, playerId, data) ==
    /\ MayRun(k)
    /\ frames[k].pc # "read"
    /\ nwrite < MaxWrites
    /\ nwrite' = nwrite + 1
    /\ frames' = [frames EXCEPT ![k] = [fn |-> fn, pc |-> "read", playerId |-> playerId,
                                        data |-> data, players |-> getAllPlayers,
                                        ret |-> [kind |-> "none"]]]
    /\ UNCHANGED <<players, nextId, now, reqs, client, playersFile>>

\* `return ret`: the locals of the call are gone.
Returned(k, ret) ==
    frames' = [frames EXCEPT ![k] = [NoFrame EXCEPT !.fn = frames[k].fn, !.pc = "returned",
                                                    !.playerId = frames[k].playerId,
                                                    !.ret = ret]]

\* saveAllPlayers(coll) and `return ret`.
Return(k, coll, ret) ==
    /\ playersFile' = Stringify(coll)
    /\ Returned(k, ret)

PlayerDatas ==
    {[username |-> Alice, password |-> Pw1],
     [username |-> Bob, password |-> Pw2, email |-> "b@x.com", level |-> 0, experience |-> 10]}

UpdateDatas ==
    {[level |-> 5],
     [password |-> Pw2, email |-> Undefined],
     [id |-> <<"9">>, username |-> Bob, createdAt |-> ToISOString(9)]}

PlayerIds == {toString(t) : t \in 0..MaxClock}

\* createPlayer up to `const players = getAllPlayers()`.
createPlayer(k, playerData) ==
    /\ Len(playersFile) < MaxFile
    /\ Enter(k, "createPlayer", << >>, playerData)

\* The rest of createPlayer: newPlayer with the clock read for its id and
\* again for createdAt, the push, saveAllPlayers, the return.
createPlayerSave(k) ==
    /\ frames[k].pc = "read"
    /\ frames[k].fn = "createPlayer"
    /\ \E t1 \in Times : \E t2 \in t1..MaxClock :
         LET playerData == frames[k].data
             newPlayer ==
                 [id |-> toString(t1),
                  username |-> playerData.username,
                  password |-> playerData.password,
                  email |-> IF Has(playerData, "email") /\ playerData.email # ""
                            THEN playerData.email ELSE "",
                  level |-> IF Has(playerData, "level") /\ playerData.level # 0
                            THEN playerData.level ELSE 1,
                  experience |-> IF Has(playerData, "experience") /\ playerData.experience # 0
                                 THEN playerData.experience ELSE 0,
                  createdAt |-> ToISOString(t2)]
         IN /\ now' = t2
            /\ Return(k, Append(frames[k].players, newPlayer),
                      [kind |-> "player", value |-> newPlayer])
    /\ UNCHANGED <<players, nextId, reqs, nwrite, client>>

\* updatePlayer up to `const players = getAllPlayers()`.
updatePlayer(k, playerId, updateData) == Enter(k, "updatePlayer", playerId, updateData)

\* { ...players[playerIndex], ...safeUpdateData }
Spread(player, safeUpdateData) ==
    [x \in DOMAIN player \cup DOMAIN safeUpdateData |->
        IF x \in DOMAIN safeUpdateData THEN safeUpdateData[x] ELSE player[x]]

\* The rest of updatePlayer: findIndex, the null when it is -1, else the
\* spread without password, saveAllPlayers, the return.
updatePlayerSave(k) ==
    /\ frames[k].pc = "read"
    /\ frames[k].fn = "updatePlayer"
    /\ LET coll == frames[k].players
           found == {i \in 1..Len(coll) : coll[i].id = frames[k].playerId}
           updateData == frames[k].data
           safeUpdateData == [x \in DOMAIN updateData \ {"password"} |-> updateData[x]]
       IN IF found = {}
          THEN /\ Returned(k, [kind |-> "null"])
               /\ UNCHANGED playersFile
          ELSE LET playerIndex == CHOOSE i \in found : \A j \in found : i <= j
                   merged == Spread(coll[playerIndex], safeUpdateData)
               IN Return(k, [coll EXCEPT ![playerIndex] = merged],
                         [kind |-> "player", value |-> merged])
    /\ UNCHANGED <<players, nextId, now, reqs, nwrite, client>>

\* deletePlayer up to `const players = getAllPlayers()`.
deletePlayer(k, playerId) == Enter(k, "deletePlayer", playerId, [fn |-> "deletePlayer"])

\* The rest of deletePlayer: the filter, saveAllPlayers, `return true`.
deletePlayerSave(k) ==
    /\ frames[k].pc = "read"
    /\ frames[k].fn = "deletePlayer"
    /\ Return(k, SelectSeq(frames[k].players, LAMBDA p : p.id # frames[k].playerId),
              [kind |-> "true"])
    /\ UNCHANGED <<players, nextId, now, reqs, nwrite, client>>

NextFile ==
    \/ \E k \in Callers, playerData \in PlayerDatas : createPlayer(k, playerData)
    \/ \E k \in Callers : createPlayerSave(k)
    \/ \E k \in Callers, playerId \in PlayerIds, updateData \in UpdateDatas :
          updatePlayer(k, playerId, updateData)
    \/ \E k \in Callers : updatePlayerSave(k)
    \/ \E k \in Callers, playerId \in PlayerIds : deletePlayer(k, playerId)
    \/ \E k \in Callers : deletePlayerSave(k)

SpecFile == Init /\ [][NextFile]_vars

----------------------------------------------------------------------------
(* The store rejects an operation: MongoDB is down, or mongoose never got   *)
(* connected and its buffered command times out.  The rejected await throws *)
(* inside the handler's try block.                                          *)

\* err.message of a rejected store operation.
StoreError == "buffering timed out after 10000ms"

\* The message of each handler's catch block.
CatchMessage(op) ==
    CASE op = "register" -> "Registration failed"
      [] op = "login" -> "Login failed"
      [] op = "fetch" -> "Failed to retrieve player data"
      [] op = "update" -> "Failed to update player data"
      [] op = "delete" -> "Failed to delete player"
      [] op = "admin" -> "Failed to get users"
      [] OTHER -> "Failed to get leaderboard"

\* The first query of the handler of request b rejects: the catch block
\* answers.
Unavailable(c, op, b) ==
    /\ Free(c)
    /\ UNCHANGED <<players, nextId, now, client, flat>>
    /\ Answer(c, op, b, << >>, Caught(CatchMessage(op), StoreError))

\* A handler without a catch block: the rejection is unhandled and the
\* request is never answered.
StoreRejectsUncaught(c) ==
    /\ reqs[c].pc \in {"create", "save", "delete"}
    /\ reqs' = [reqs EXCEPT ![c].pc = "unhandled"]
    /\ UNCHANGED <<players, nextId, now, nwrite, client, flat>>

\* The awaited Player.create, player.save() or player.deleteOne() rejects:
\* the catch block answers.
StoreRejects(c) ==
    /\ reqs[c].pc \in {"create", "save", "delete"}
    /\ Respond(c, Caught(CatchMessage(reqs[c].op), StoreError))
    /\ UNCHANGED <<players, nextId, now, nwrite, client, flat>>

\* One request to each route, complete and with the right credential.
OutageBody ==
    [register |-> RegisterUrl @@ [username |-> Alice, password |-> Pw1],
     login |-> LoginUrl @@ [username |-> Alice, password |-> Pw1],
     fetch |-> [url |-> "/api/player/get", username |-> Alice, password |-> Pw1],
     update |-> PutUrl @@ [id |-> IdNames[1], currentPassword |-> Pw1, level |-> 5],
     delete |-> [url |-> "/api/delete/:playerId", id |-> IdNames[1], password |-> Pw1],
     admin |-> [url |-> "/api/players", adminPassword |-> ADMIN_SECRET],
     leaderboard |-> [url |-> "/api/leaderboard"]]

NextOutage ==
    \/ \E c \in Conns : Register(c, OutageBody.register)
    \/ \E c \in Conns : RegisterCreate(c)
    \/ \E c \in Conns : Login(c, OutageBody.login)
    \/ \E c \in Conns : LoginStamp(c)
    \/ \E c \in Conns : LoginSave(c)
    \/ \E c \in Conns : PostPlayerGet(c, OutageBody.fetch)
    \/ \E c \in Conns : PutPlayer(c, OutageBody.update)
    \/ \E c \in Conns : PutSave(c)
    \/ \E c \in Conns : DeleteById(c, OutageBody.delete)
    \/ \E c \in Conns : DeleteFinish(c)
    \/ \E c \in Conns : GetPlayers(c, OutageBody.admin)
    \/ \E c \in Conns : Leaderboard(c, OutageBody.leaderboard)
    \/ \E c \in Conns, op \in DOMAIN OutageBody : Unavailable(c, op, OutageBody[op])
    \/ \E c \in Conns : StoreRejects(c)
    \/ \E c \in Conns : Close(c)

SpecOutage == Init /\ [][NextOutage]_vars

\* The promise a handler awaits settles, and the event loop then runs the
\* rest of the handler.
Settle(c) ==
    \/ RegisterCreate(c)
    \/ LoginStamp(c)
    \/ LoginSave(c)
    \/ PutSave(c)
    \/ DeleteFinish(c)
    \/ StoreRejects(c)

FairSpecOutage == SpecOutage /\ \A c \in Conns : WF_vars(Settle(c))

(***************************************************************************)
(* GameUIManager over PlayerManager: the account panels of one device, on  *)
(* connection 1, and the service behind them.                              *)
(***************************************************************************)

\* The feedback text is set and nothing else happens.
Feedback(text) ==
    /\ ui' = [ui EXCEPT !.feedback = text]
    /\ UNCHANGED <<players, nextId, now, reqs, nwrite, script, www, pm, flat>>

\* GameUIManager.RegisterAccount over the four input fields.
RegisterAccount(c, regUsername, regPassword, regRepeatPassword, regEmail) ==
    LET user == Trim(regUsername)
        pass == Trim(regPassword)
        repass == Trim(regRepeatPassword)
    IN IF user = << >> \/ pass = << >> \/ regEmail = ""
       THEN Feedback(<<"Please fill in all fields.">>)
       ELSE IF pass # repass
       THEN Feedback(<<"Passwords do not match!">>)
       ELSE BackendRegister(c, "ui", user, pass, regEmail)

\* GameUIManager.LoginAccount over the two input fields.
LoginAccount(c, loginUsername, loginPassword) ==
    LET user == Trim(loginUsername)
        pass == Trim(loginPassword)
    IN IF user = << >> \/ pass = << >>
       THEN Feedback(<<"Please enter username and password.">>)
       ELSE BackendLogin(c, "ui", user, pass)

\* PlayerManager.Logout().  The calls in flight go on; loggedOut is history,
\* recording on each of them that a logout ran after it was sent.
Logout ==
    /\ pm' = LoggedOut
    /\ www' = [c \in Conns |-> IF www[c].state = "sent"
                                THEN [www[c] EXCEPT !.loggedOut = TRUE] ELSE www[c]]
    /\ UNCHANGED <<players, nextId, now, reqs, nwrite, script, ui, flat>>

\* PlayerManager.RefreshPlayerData(): nothing without a player; else the
\* player is fetched by id and OnGetPlayerDataComplete saves what comes back.
RefreshPlayerData(c) ==
    /\ pm.currentPlayer # << >>
    /\ pm.currentPlayer[1].id # << >>
    /\ Send(c, "fetch", "handler",
            [url |-> "/api/player", query |-> Query([id |-> pm.currentPlayer[1].id]),
             body |-> NoFields])

\* PlayerManager.DeletePlayerAccount(): nothing without a player; else the
\* delete is sent with the id alone and OnDeletePlayerComplete logs out on
\* success.
DeletePlayerAccount(c) ==
    /\ pm.currentPlayer # << >>
    /\ pm.currentPlayer[1].id # << >>
    /\ Send(c, "delete", "deleter",
            [url |-> "/api/delete/:playerId", id |-> pm.currentPlayer[1].id])

\* ValidateCredentials: the mirror file of the user exists and its password
\* equals the one typed.
ValidateCredentials(username, password) ==
    /\ username # << >> /\ password # << >>
    /\ username \in Users
    /\ ui.files[username] # << >>
    /\ ui.files[username][1].password = password

\* GameUIManager.DeleteAccount(username): the mirror file and the
\* PlayerPrefs keys of the account go, the list is redrawn.
DeleteAccount(username) ==
    /\ ui' = Listed([ui EXCEPT
               !.files[username] = << >>,
               !.lastOnline[username] = "",
               !.winRate[username] = << >>,
               !.currentPlayer = IF @ # << >> /\ @[1].username = username THEN << >> ELSE @,
               !.panel = IF ui.currentPlayer # << >> /\ ui.currentPlayer[1].username = username
                         THEN "login" ELSE @,
               !.feedback = <<"Account '", username, "' deleted.">>])
    /\ pm' = IF Has(pm.prefs, "CurrentUser") /\ pm.prefs.CurrentUser = username
             THEN [pm EXCEPT !.prefs = [k \in DOMAIN pm.prefs \ {"CurrentUser"} |-> pm.prefs[k]]]
             ELSE pm
    /\ UNCHANGED <<players, nextId, now, reqs, nwrite, script, www, flat>>

\* The listener of the delete account button over the login input fields.
DeleteAccountButton(loginUsername, loginPassword) ==
    LET userToDelete == Trim(loginUsername)
    IN IF userToDelete = << >> \/ loginPassword = << >>
       THEN Feedback(<<"Enter username and password to delete account.">>)
       ELSE IF ValidateCredentials(userToDelete, loginPassword)
       THEN DeleteAccount(userToDelete)
       ELSE Feedback(<<"Username or password incorrect. Account not deleted.">>)

\* GameUIManager.OnRoundEnded: a draw shows the draw panel; a win or a loss
\* shows its panel and runs UpdatePlayerStats, which returns at once without
\* a current player.
Played(won) ==
    IF ui.currentPlayer = << >> THEN ui
    ELSE LET cp == ui.currentPlayer[1]
             played == IF won
                       THEN [cp EXCEPT !.score = @ + 1, !.wins = @ + 1]
                       ELSE [cp EXCEPT !.losses = @ + 1, !.score = MathfMax(0, @ - 1)]
         IN [ui EXCEPT !.currentPlayer = <<played>>,
                       !.files[cp.username] = <<played>>,
                       !.lastOnline[cp.username] = "Just played",
                       !.winRate[cp.username] = <<ComputeWinRate(played)>>]

OnRoundEnded(outcome) ==
    /\ ui' = [(IF outcome = "draw" THEN ui ELSE Played(outcome = "win"))
                 EXCEPT !.panel = IF outcome = "draw" THEN "drawPanel"
                                  ELSE IF outcome = "win" THEN "winPanel" ELSE "losePanel"]
    /\ UNCHANGED <<players, nextId, now, reqs, nwrite, script, www, pm, flat>>

\* ShowSelectionAgain, three seconds after a round ended.
ShowSelectionAgain ==
    /\ ui.panel \in {"winPanel", "losePanel", "drawPanel"}
    /\ ui' = [ui EXCEPT !.panel = "selectionPanel"]
    /\ UNCHANGED <<players, nextId, now, reqs, nwrite, script, www, pm, flat>>

UINames == {Alice, << >>}

UIPasswords == {Pw1, Pw2}

NextUI ==
    \/ \E u \in UINames, p \in UIPasswords, e \in {"a@x.com", ""} :
           RegisterAccount(1, u, Pw1, p, e)
    \/ \E u \in UINames, p \in UIPasswords : LoginAccount(1, u, p)
    \/ Logout
    \/ RefreshPlayerData(1)
    \/ DeletePlayerAccount(1)
    \/ \E u \in UINames, p \in UIPasswords : DeleteAccountButton(u, p)
    \/ \E o \in {"win", "lose", "draw"} : OnRoundEnded(o)
    \/ ShowSelectionAgain
    \/ Deliver(1)
    \/ Continue(1)
    \/ Resume(1)
    \/ ConnectionError(1)

SpecUI == Init /\ [][NextUI]_vars

(***************************************************************************)
(* The minigame of GameUIManager: drinks are drawn from a batch, some of   *)
(* them poisoned, by the player and by the opponent in turn.               *)
(***************************************************************************)

totalDrinksInBatch == 6

poisonedDrinksInBatch == 2

\* UnityEngine.Random.value, a float of [0, 1] with both ends included: the
\* numerators of the values 0/MaxRandom .. MaxRandom/MaxRandom.
RandomValues == 0..MaxRandom

StartNewBatch(g) ==
    [g EXCEPT !.drinksLeft = totalDrinksInBatch, !.poisonedLeft = poisonedDrinksInBatch]

\* DrawDrink with Random.value = value / MaxRandom: the game after the draw
\* and whether the drink was poisoned.  chance is poisonedLeft over the
\* drinks there were before this one was taken.
DrawDrink(g, value) ==
    LET batch == IF g.drinksLeft <= 0 THEN StartNewBatch(g) ELSE g
        left == batch.drinksLeft - 1
        poisoned == /\ batch.poisonedLeft > 0
                    /\ value * (left + 1) < batch.poisonedLeft * MaxRandom
    IN [game |-> [batch EXCEPT !.drinksLeft = left,
                               !.poisonedLeft = IF poisoned THEN @ - 1 ELSE @],
        poisoned |-> poisoned]

\* What IsGameOver() returns when it returns.
IsGameOver(g) == g.playerHP <= 0 \/ g.opponentHP <= 0

\* IsGameOver() of a game that is over calls
\* UpdatePoisonedGlassButtonVisibility(), which evaluates
\* `isPlayerTurn && !IsGameOver()`: on the player's turn the two call each
\* other without end.
Recurses(g) == IsGameOver(g) /\ g.isPlayerTurn

\* The game after a call of IsGameOver() that returned: the restart button
\* is shown when the game is over.
Checked(g) == IF IsGameOver(g) THEN [g EXCEPT !.restartButton = TRUE] ELSE g

\* The games a call that never returns can leave: the stack overflow ends
\* the process, or unwinds the event handler that made the call.
Overflown(g) == {[g EXCEPT !.running = r] : r \in BOOLEAN}

\* The games EndTurn() can leave.
EndTurn(g) ==
    IF Recurses(g) THEN Overflown(g)
    ELSE IF IsGameOver(g) THEN {Checked(g)}
    ELSE {[g EXCEPT !.isPlayerTurn = ~@, !.opponentWaits = g.isPlayerTurn]}

\* The games OnDrink() can leave.
Drunk(g, value) ==
    IF ~g.isPlayerTurn THEN {g}
    ELSE IF Recurses(g) THEN Overflown(g)
    ELSE LET d == DrawDrink(g, value)
         IN IF d.poisoned THEN EndTurn([d.game EXCEPT !.playerHP = @ - 1])
            ELSE {d.game}

\* The games OnPassDrink() can leave.
Passed(g, value) ==
    IF ~g.isPlayerTurn THEN {g}
    ELSE IF Recurses(g) THEN Overflown(g)
    ELSE LET d == DrawDrink(g, value)
         IN EndTurn(IF d.poisoned THEN [d.game EXCEPT !.opponentHP = @ - 1] ELSE d.game)

\* The games OpponentTurn() can leave, aiChoiceDrink being Random.value > 0.5f.
Opposed(g, choice, value) ==
    IF Recurses(g) THEN Overflown(g)
    ELSE IF IsGameOver(g) THEN {Checked(g)}
    ELSE LET aiChoiceDrink == 2 * choice > MaxRandom
             d == DrawDrink(g, value)
         IN EndTurn(IF ~d.poisoned THEN d.game
                    ELSE IF aiChoiceDrink THEN [d.game EXCEPT !.opponentHP = @ - 1]
                    ELSE [d.game EXCEPT !.playerHP = @ - 1])

\* ShowGamePanel(), when both players are ready: the game panel is shown and
\* InitializePoisonedGlass starts a batch and hides the restart button.
ShowGamePanel ==
    /\ ui.running
    /\ ui.panel # "gamePanel"
    /\ LET g == StartNewBatch([ui EXCEPT !.panel = "gamePanel"])
       IN ui' \in IF Recurses(g) THEN Overflown(g)
                  ELSE {[g EXCEPT !.restartButton = FALSE]}
    /\ UNCHANGED <<players, nextId, now, reqs, nwrite, script, www, pm, flat>>

\* The drink button, a part of the game panel, is clicked.
OnDrinkButtonClicked ==
    /\ ui.running
    /\ ui.panel = "gamePanel"
    /\ \E value \in RandomValues : ui' \in Drunk(ui, value)
    /\ UNCHANGED <<players, nextId, now, reqs, nwrite, script, www, pm, flat>>

\* The pass button, a part of the game panel, is clicked.
OnPassButtonClicked ==
    /\ ui.running
    /\ ui.panel = "gamePanel"
    /\ \E value \in RandomValues : ui' \in Passed(ui, value)
    /\ UNCHANGED <<players, nextId, now, reqs, nwrite, script, www, pm, flat>>

\* OpponentTurnWithDelay resumes after aiResponseDelay seconds.
OpponentTurn ==
    /\ ui.running
    /\ ui.opponentWaits
    /\ \E choice \in RandomValues, value \in RandomValues :
           ui' \in Opposed([ui EXCEPT !.opponentWaits = FALSE], choice, value)
    /\ UNCHANGED <<players, nextId, now, reqs, nwrite, script, www, pm, flat>>

\* RestartGame(), the listener of the restart button: the scene is loaded
\* again, and with it a GameUIManager over the same files and PlayerPrefs.
RestartGame ==
    /\ ui.running
    /\ ui.restartButton
    /\ ui' = [NoUI EXCEPT !.files = ui.files, !.winRate = ui.winRate,
                          !.lastOnline = ui.lastOnline]
    /\ UNCHANGED <<players, nextId, now, reqs, nwrite, script, www, pm, flat>>

NextGame ==
    \/ ShowGamePanel
    \/ OnDrinkButtonClicked
    \/ OnPassButtonClicked
    \/ OpponentTurn
    \/ RestartGame

SpecGame == Init /\ [][NextGame]_vars

----------------------------------------------------------------------------
(* Rounds reported to a GameUIManager that mirrors a player.                *)

StartPlayers ==
    {[username |-> Alice, password |-> Pw1, email |-> "a@x.com",
      score |-> s, wins |-> w, losses |-> l, creationDate |-> 0, lastLoggedIn |-> 0] :
        s \in 0..MaxStart, w \in 0..MaxStart, l \in 0..MaxStart}

InitStats ==
    /\ players = << >>
    /\ nextId = 1
    /\ now = 0
    /\ reqs = [c \in Conns |-> Idle]
    /\ nwrite = 0
    /\ script = [stage |-> 0, id |-> << >>, wrong |-> NoResp]
    /\ www = [c \in Conns |-> NoCall]
    /\ pm = NoPM
    /\ playersFile = << >>
    /\ frames = [k \in Callers |-> NoFrame]
    /\ ui \in {NoUI} \cup
               {[NoUI EXCEPT !.currentPlayer = <<pd>>, !.files[pd.username] = <<pd>>] :
                    pd \in StartPlayers}

NextStats ==
    \/ \E won \in BOOLEAN : UpdatePlayerStats(won)
    \/ RefreshLocalAccountsList

SpecStats == InitStats /\ [][NextStats]_vars

----------------------------------------------------------------------------
(* Properties.                                                              *)

\* The codec's hashes of a plaintext: the bcrypt header, a salt, the digest.
HashesOf(password) == {<<"$2b$10$", s>> \o password : s \in Salts}

\* What a done request named and offered, as its handler read them.
Params(r) == IF r.op = "fetch" /\ Has(r.body, "query") THEN GetParams(r.body) ELSE r.body

Secret(r) == IF r.op = "update" THEN "currentPassword" ELSE "password"

\* r named a target and offered a credential, and no record was found.
Absent(r) ==
    /\ r.pc = "done"
    /\ ~(Falsy(Params(r), "id") /\ Falsy(Params(r), "username"))
    /\ ~Falsy(Params(r), Secret(r))
    /\ r.player = << >>

\* r named a stored record and offered a credential that does not verify.
Wrong(r) ==
    /\ r.pc = "done"
    /\ ~Falsy(Params(r), Secret(r))
    /\ r.player # << >>
    /\ r.player[1].password \notin HashesOf(Params(r)[Secret(r)])

\* C1: a register request whose handle already belongs to a stored record is
\* answered 409 in the step that receives it, whatever password and email it
\* carries, and the store is left as it was.
C1_RegisterOnStoredHandle ==
    [][\A c \in Conns :
        (/\ reqs[c].pc = "idle"
         /\ reqs'[c].op = "register"
         /\ ~Falsy(reqs'[c].body, "username")
         /\ ~Falsy(reqs'[c].body, "password")
         /\ \E i \in 1..Len(players) : players[i].username = reqs'[c].body.username)
        => /\ reqs'[c].pc = "done"
           /\ reqs'[c].resp = Fail(409, "Username already exists")
           /\ players' = players]_vars

\* A register for a stored handle, with another password than the stored one
\* and with an email, has been answered 409.
C1_Witness ==
    \E c \in Conns, i \in 1..Len(players) :
        /\ reqs[c].op = "register" /\ reqs[c].pc = "done"
        /\ reqs[c].resp.status = 409
        /\ players[i].username = reqs[c].body.username
        /\ \/ ~Compare(reqs[c].body.password, players[i].password)
           \/ Has(reqs[c].body, "email")

\* C2: no two stored records ever have the same handle, and of two register
\* requests for one handle that are in flight together, the one that reaches
\* the store while the other's record is stored is not answered 201.
C2_UniqueHandle ==
    /\ [](\A i, j \in 1..Len(players) :
            players[i].username = players[j].username => i = j)
    /\ [][\A c, d \in Conns :
            (/\ c # d
             /\ reqs[c].op = "register" /\ reqs[c].pc = "create"
             /\ reqs[d].op = "register" /\ reqs[d].pc = "done"
             /\ reqs[d].resp.status = 201
             /\ \E i \in 1..Len(players) : players[i]._id = reqs[d].resp.data.id
             /\ Trim(reqs[c].body.username) = Trim(reqs[d].body.username)
             /\ reqs'[c].pc = "done")
            => reqs'[c].resp.status # 201]_vars

\* Two registers for one handle were in flight together; one was answered
\* 201 and the other 500.
C2_Witness ==
    \E c, d \in Conns :
        /\ reqs[c].op = "register" /\ reqs[c].pc = "done" /\ reqs[c].resp.status = 201
        /\ reqs[d].op = "register" /\ reqs[d].pc = "done" /\ reqs[d].resp.status = 500
        /\ Trim(reqs[c].body.username) = Trim(reqs[d].body.username)

\* C3: a login for a handle with no record and a login for a stored handle
\* with a password that does not verify get the same response, a 401 with
\* the same message.
C3_LoginTellsNothing ==
    \A c, d \in Conns :
        (/\ reqs[c].op = "login" /\ Absent(reqs[c])
         /\ reqs[d].op = "login" /\ Wrong(reqs[d]))
        => /\ reqs[c].resp = reqs[d].resp
           /\ reqs[c].resp.status = 401

\* Both kinds of failed login have been answered.
C3_Witness ==
    \E c, d \in Conns :
        /\ reqs[c].op = "login" /\ Absent(reqs[c])
        /\ reqs[d].op = "login" /\ Wrong(reqs[d])

\* C4: a fetch, update or delete whose target does not exist and one whose
\* credential does not verify fail with the same status.
C4_TargetTellsNothing ==
    \A c, d \in Conns :
        (/\ reqs[c].op \in {"fetch", "update", "delete"}
         /\ reqs[d].op = reqs[c].op
         /\ Absent(reqs[c])
         /\ Wrong(reqs[d]))
        => reqs[c].resp.status = reqs[d].resp.status

\* The records in the body of the response to r.
Carried(r) ==
    IF ~Has(r.resp, "data") THEN {}
    ELSE IF r.op \in {"admin", "leaderboard"}
    THEN {r.resp.data[i] : i \in 1..Len(r.resp.data)}
    ELSE {r.resp.data}

\* C5: no response carries a password, in plaintext or hashed: a response
\* has no keys but status, success, message, data and error, no record in it
\* has a password key, and no identifier or handle in it is a plaintext or a
\* hash of one.
C5_NoCredentialInResponse ==
    \A c \in Conns :
        /\ DOMAIN reqs[c].resp \subseteq {"status", "success", "message", "data", "error"}
        /\ \A d \in Carried(reqs[c]) :
             /\ DOMAIN d \cap {"password", "currentPassword"} = {}
             /\ \A k \in DOMAIN d \cap {"id", "username"} :
                  /\ d[k] \notin PasswordInputs
                  /\ \A p \in PasswordInputs : d[k] \notin HashesOf(p)

\* A login has been answered with the record, and so has the listing.
C5_Witness ==
    \E c \in Conns :
        /\ reqs[c].pc = "done" /\ reqs[c].resp.status = 200
        /\ reqs[c].op \in {"login", "admin"}
        /\ Carried(reqs[c]) # {}

C8_EndToEnd ==
    reqs[1].pc = "done" =>
        LET r == reqs[1].resp
        IN CASE script.stage = 1 -> r.status = 201 /\ Has(r, "data")
             [] script.stage = 2 -> r.status = 401
             [] script.stage = 3 ->
                  r.status = 200 /\ Has(r, "data") /\ Has(r.data, "lastLoginAt")
             [] script.stage = 4 ->
                  r.status = 200 /\ Has(r, "data") /\ r.data.level = 5
                  /\ r.data.id = script.id
             [] script.stage = 5 -> r.status = 200
             [] OTHER -> r.status = 401 /\ r = script.wrong

\* The last of the later logins has been answered, with bob's record stored.
C8_Witness ==
    /\ script.stage = LastStage
    /\ reqs[1].pc = "done"
    /\ reqs[1].resp.status = 401
    /\ Len(players) = 1

\* The keys of an update's body that name something to change.
Changes(b) == DOMAIN b \cap (PlainFields \cup {"password"})

\* C9: a successful update leaves every other record as it was, and in the
\* record it names sets level, experience, email, score, wins and losses to
\* the values the request carries, replaces the password by a hash of the new
\* one when the request carries one, and leaves every other field as it was.
C9_UpdateChangesWhatItCarries ==
    [][\A c \in Conns :
        (/\ reqs[c].op = "update" /\ reqs[c].pc = "save"
         /\ reqs'[c].pc = "done" /\ reqs'[c].resp.status = 200)
        => LET b == reqs[c].body
               id == reqs[c].player[1]._id
           IN /\ Len(players') = Len(players)
              /\ \A i \in 1..Len(players) :
                   IF players[i]._id # id THEN players'[i] = players[i]
                   ELSE /\ DOMAIN players'[i] = DOMAIN players[i]
                        /\ \A k \in DOMAIN players[i] :
                             IF k \in PlainFields /\ Has(b, k)
                             THEN players'[i][k] = b[k]
                             ELSE IF k = "password" /\ ~Falsy(b, "password")
                             THEN players'[i][k] \in HashesOf(b.password)
                             ELSE players'[i][k] = players[i][k]]_vars

\* An update that carries some fields and not others has succeeded on a
\* record that had been updated before, with a second record in the store.
C9_Witness ==
    \E c \in Conns, i \in 1..Len(players) :
        /\ reqs[c].op = "update" /\ reqs[c].pc = "done" /\ reqs[c].resp.status = 200
        /\ Changes(reqs[c].body) = {"score", "wins", "losses"}
        /\ players[i]._id = reqs[c].player[1]._id
        /\ players[i].level = 5
        /\ players[i].score = 3

\* C10: an update that carries no field to change and no new password, for a
\* stored record, is answered 401 and changes nothing when its current
\* password does not verify; when it verifies the update goes on to save,
\* leaves the store as it was and answers 200 with the record.
C10_EmptyUpdate ==
    [][\A c \in Conns :
        LET q == reqs[c]
            r == reqs'[c]
            t == Target(players, r.body)
        IN /\ (/\ q.pc = "idle" /\ r.op = "update" /\ Changes(r.body) = {}
               /\ ~Falsy(r.body, "currentPassword")
               /\ t # << >>)
              => IF t[1].password \in HashesOf(r.body.currentPassword)
                 THEN r.pc = "save"
                 ELSE /\ r.pc = "done"
                      /\ r.resp.status = 401
                      /\ ~Has(r.resp, "data")
                      /\ players' = players
           /\ (/\ q.op = "update" /\ q.pc = "save" /\ Changes(q.body) = {}
               /\ r.pc = "done")
              => /\ players' = players
                 /\ r.resp.status = 200
                 /\ Has(r.resp, "data")
                 /\ \E i \in 1..Len(players) :
                      /\ <<players[i]>> = Target(players, q.body)
                      /\ r.resp.data =
                           [id |-> players[i]._id,
                            username |-> players[i].username,
                            email |-> players[i].email,
                            level |-> players[i].level,
                            experience |-> players[i].experience,
                            score |-> players[i].score,
                            wins |-> players[i].wins,
                            losses |-> players[i].losses]]_vars

\* An update that carries nothing to change has been answered 200 for a
\* record that an earlier update had changed.
C10_Witness ==
    \E c \in Conns :
        /\ reqs[c].op = "update" /\ reqs[c].pc = "done" /\ reqs[c].resp.status = 200
        /\ Changes(reqs[c].body) = {}
        /\ reqs[c].resp.data.level = 5

\* C11: after every report on a mirrored player the score is not negative;
\* a win adds 1 to score and to wins and leaves losses; a loss adds 1 to
\* losses, leaves wins, and lowers the score by 1 unless it is 0, which it
\* stays.
C11_ScoreFloor ==
    /\ [](ui.currentPlayer # << >> => ui.currentPlayer[1].score >= 0)
    /\ [][(ui.currentPlayer # << >> /\ ui'.currentPlayer # ui.currentPlayer)
          => LET old == ui.currentPlayer[1]
                 new == ui'.currentPlayer[1]
             IN \/ /\ new.wins = old.wins + 1
                   /\ new.losses = old.losses
                   /\ new.score = old.score + 1
                \/ /\ new.losses = old.losses + 1
                   /\ new.wins = old.wins
                   /\ new.score = IF old.score = 0 THEN 0 ELSE old.score - 1]_vars

\* A player at score 0 has lost, and the mirror file shows the loss and the
\* score still 0.
C11_Witness ==
    /\ ui.currentPlayer # << >>
    /\ ui.currentPlayer[1].score = 0
    /\ ui.currentPlayer[1].losses > ui.currentPlayer[1].wins + MaxStart
    /\ ui.lastOnline[Alice] = "Just played"
    /\ ui.files[Alice] = ui.currentPlayer

\* C14: the win rate kept for a mirror file with wins w and losses l is 0
\* when w + l = 0 and otherwise the single-precision value of 100 * w / (w + l),
\* less than 0.00001 away from it; for w = 3, l = 1 it is exactly 75.
C14_WinRate ==
    \A u \in Users :
        (ui.winRate[u] # << >> /\ ui.files[u] # << >>)
        => LET w == ui.files[u][1].wins
               t == ui.files[u][1].wins + ui.files[u][1].losses
               m == ui.winRate[u][1][1]
               e == ui.winRate[u][1][2]
               exact == 100 * w * Pow2(e)
               diff == IF m * t >= exact THEN m * t - exact ELSE exact - m * t
           IN /\ t = 0 => (m = 0 /\ e = 0)
              /\ t > 0 => diff <= (t * Pow2(e)) \div 100000
              /\ (w = 3 /\ t = 4) => (m = 75 * Pow2(17) /\ e = 17)

\* The win rate of a mirror with 3 wins and 1 loss has been computed.
C14_Witness ==
    /\ ui.files[Alice] # << >>
    /\ ui.files[Alice][1].wins = 3
    /\ ui.files[Alice][1].losses = 1
    /\ ui.winRate[Alice] = <<<<75 * Pow2(17), 17>>>>

\* C12: the level, experience, score, wins and losses of every stored record
\* are not negative.
C12_StoredNonNegative ==
    \A i \in 1..Len(players) :
        /\ players[i].level >= 0
        /\ players[i].experience >= 0
        /\ players[i].score >= 0
        /\ players[i].wins >= 0
        /\ players[i].losses >= 0

\* C13: whenever a stored record's wins or losses change, exactly one of the
\* two has gone up by one and the other is as it was.
C13_OnlyReportsCount ==
    [][\A i \in 1..Len(players) : \A j \in 1..Len(players') :
          (players'[j]._id = players[i]._id
           /\ <<players'[j].wins, players'[j].losses>> # <<players[i].wins, players[i].losses>>)
          => \/ /\ players'[j].wins = players[i].wins + 1
                /\ players'[j].losses = players[i].losses
             \/ /\ players'[j].losses = players[i].losses + 1
                /\ players'[j].wins = players[i].wins]_vars

C16_StableOrder ==
    \A c \in Conns :
        (reqs[c].op = "leaderboard" /\ reqs[c].pc = "done")
        => LET n == Len(players)
               Before(i, j) == \/ players[i].score > players[j].score
                               \/ players[i].score = players[j].score /\ i < j
               place(i) == Cardinality({j \in 1..n : Before(j, i)}) + 1
               stable == [k \in 1..n |-> CHOOSE i \in 1..n : place(i) = k]
               data == reqs[c].resp.data
           IN /\ Len(data) = Min(Limit(reqs[c].body), n)
              /\ \A k \in 1..Len(data) :
                    /\ data[k].username = players[stable[k]].username
                    /\ data[k].score = players[stable[k]].score

C18_CredentialChange ==
    /\ []((reqs[1].pc = "done" /\ script.stage \in 2..12 /\ script.id # << >>)
          => reqs[1].resp.status =
                IF script.stage = 2 \/ script.stage \in 5..8 THEN 401 ELSE 200)
    /\ []((script.stage \in 5..11 /\ script.id # << >>)
          => \E i \in 1..Len(players) :
                /\ players[i]._id = script.id
                /\ players[i].password \in HashesOf(Pw2))
    /\ [][(script.stage = 2 /\ script'.stage = 2)
          => \A i \in 1..Len(players) :
                players[i].username = Alice => \E j \in 1..Len(players') : players'[j] = players[i]]_vars

\* The client's delete with the new password has been answered 200 and its
\* record is gone, while bob's is stored.
C18_Witness ==
    /\ script.stage = 12
    /\ reqs[1].pc = "done"
    /\ reqs[1].resp.status = 200
    /\ \A i \in 1..Len(players) : players[i]._id # script.id
    /\ \E i \in 1..Len(players) : players[i].username = Bob

\* C19: an id that the store has given out and that no stored record bears,
\* which is the id of a deleted record, is borne by no record after any step:
\* neither the save of an update or a login that had loaded the record, nor a
\* later register, brings a record with that id back.
C19_DeleteIsTerminal ==
    [][\A k \in 1..(nextId - 1) :
          (\A i \in 1..Len(players) : players[i]._id # IdNames[k])
          => (\A j \in 1..Len(players') : players'[j]._id # IdNames[k])]_vars

\* An update or a login had loaded a record that a delete on the other
\* connection then removed; its save has been answered 500 and the record
\* is not stored.
C19_Witness ==
    \E c \in Conns :
        /\ reqs[c].op \in {"update", "login"}
        /\ reqs[c].pc = "done"
        /\ reqs[c].resp.status = 500
        /\ reqs[c].player # << >>
        /\ \A i \in 1..Len(players) : players[i]._id # reqs[c].player[1]._id
        /\ \E d \in Conns :
              /\ reqs[d].op = "delete" /\ reqs[d].pc = "done" /\ reqs[d].resp.status = 200

\* C20: while a coroutine waits for its request no callback has been invoked
\* for it; once it is over, its callback has been invoked exactly once: with
\* the parsed response if the request's result was Success and with the error
\* response otherwise; the callback handed to PlayerManager has then been
\* invoked exactly once too; and every request that was sent is over at some
\* later time.
C20_ExactlyOneCallback ==
    /\ [](\A c \in Conns :
            /\ www[c].state = "sent"
               => www[c].parsed + www[c].errored + www[c].ok + www[c].failed = 0
            /\ www[c].state = "completed"
               => /\ www[c].parsed + www[c].errored = 1
                  /\ www[c].parsed = 1 <=> www[c].result = "Success"
                  /\ www[c].via = "manager" => www[c].ok + www[c].failed = 1
                  /\ www[c].via = "backend" => www[c].ok + www[c].failed = 0)
    /\ \A c \in Conns : (www[c].state = "sent") ~> (www[c].state = "completed")

\* A login through PlayerManager has been answered and told as a success,
\* and an update on the other connection has been answered 401 and told as
\* a failure.
C20_Witness ==
    \E c, d \in Conns :
        /\ www[c].op = "login" /\ www[c].via = "manager" /\ www[c].state = "completed"
        /\ www[c].parsed = 1 /\ www[c].ok = 1
        /\ pm.currentPlayer # << >>
        /\ www[d].op = "update" /\ www[d].state = "completed"
        /\ www[d].errored = 1 /\ www[d].message = "HTTP/1.1 401 Unauthorized"

\* C23: an administrative listing whose request carries no secret is answered
\* 401, one whose secret differs from the admin secret is answered 403, and
\* neither answer carries data; an answer carries data only when the secret
\* the request carries is the admin secret.
C23_AdminSecretGates ==
    \A c \in Conns :
        (reqs[c].op = "admin" /\ reqs[c].pc = "done")
        => LET b == reqs[c].body
               provided == FirstTruthy(b, IF b.url = "/api/players" THEN GetPlayersPlaces
                                          ELSE PostPlayersPlaces)
               r == reqs[c].resp
           IN /\ provided = << >> => (r.status = 401 /\ ~Has(r, "data"))
              /\ (provided # << >> /\ provided # <<"Kate_Admin">>)
                    => (r.status = 403 /\ ~Has(r, "data"))
              /\ Has(r, "data") => (provided = <<"Kate_Admin">> /\ r.status = 200)

\* A listing asked with the password of a stored player has been answered 403.
C23_Witness ==
    \E c \in Conns :
        /\ reqs[c].op = "admin" /\ reqs[c].pc = "done"
        /\ Has(reqs[c].body, "adminPassword") /\ reqs[c].body.adminPassword = Pw1
        /\ reqs[c].resp.status = 403
        /\ \E i \in 1..Len(players) : players[i].password \in HashesOf(Pw1)

\* C21: when a register or login made through PlayerManager ends with a
\* response of success, currentPlayer is then a player with the id, username,
\* email, level and experience of the response, the PlayerPrefs keys hold the
\* same values and the logged-in flag is 1; when it ends otherwise,
\* currentPlayer and PlayerPrefs are as they were.
C21_MirrorOverwritten ==
    [][\A c \in Conns :
          (/\ www[c].via = "manager" /\ www[c].op \in {"register", "login"}
           /\ www[c].state = "sent" /\ www'[c].state = "completed")
          => IF www'[c].result = "Success"
             THEN LET data == reqs[c].resp.data
                  IN /\ pm'.currentPlayer # << >>
                     /\ pm'.currentPlayer[1] =
                           [id |-> data.id, username |-> data.username, email |-> data.email,
                            level |-> data.level, experience |-> data.experience]
                     /\ pm'.prefs.player_id = data.id
                     /\ pm'.prefs.player_username = data.username
                     /\ pm'.prefs.player_email = data.email
                     /\ pm'.prefs.player_level = data.level
                     /\ pm'.prefs.player_experience = data.experience
                     /\ Has(pm'.prefs, "player_logged_in")
                     /\ pm'.prefs.player_logged_in = 1
             ELSE pm' = pm]_vars

\* A login through PlayerManager has succeeded and the mirror shows the
\* stored record.
C21_Witness ==
    /\ www[1].via = "manager" /\ www[1].op = "login"
    /\ www[1].state = "completed" /\ www[1].result = "Success"
    /\ pm.currentPlayer # << >>
    /\ pm.prefs.player_logged_in = 1
    /\ \E i \in 1..Len(players) :
          /\ players[i]._id = pm.currentPlayer[1].id
          /\ players[i].username = pm.currentPlayer[1].username
          /\ players[i].level = pm.currentPlayer[1].level

\* C22: when an update started by PlayerManager.UpdatePlayerData has been
\* answered by the server, the answer is a success carrying the player data
\* and the store holds the level and experience that the request carried.
C22_ClientUpdateStored ==
    \A c \in Conns :
        (/\ www[c].via = "handler" /\ www[c].op = "update"
         /\ www[c].state = "completed" /\ www[c].result # "ConnectionError")
        => /\ www[c].result = "Success"
           /\ www[c].parsed = 1
           /\ \E i \in 1..Len(players) :
                 /\ players[i]._id = www[c].body.id
                 /\ players[i].level = www[c].body.level
                 /\ players[i].experience = www[c].body.experience

\* C24: in each store the ids of the records are pairwise different.
C24_UniqueIds ==
    /\ \A i, j \in 1..Len(players) : i # j => players[i]._id # players[j]._id
    /\ \A i, j \in 1..Len(playersFile) : i # j => playersFile[i].id # playersFile[j].id

\* C25: no step changes the username or createdAt of a stored document, and
\* a call of updatePlayer that returns leaves the id, username and createdAt
\* of every record of the file as they were.
C25_UpdateKeepsIdentity ==
    [][/\ \A i \in 1..Len(players), j \in 1..Len(players') :
             players[i]._id = players'[j]._id
             => /\ players'[j].username = players[i].username
                /\ players'[j].createdAt = players[i].createdAt
       /\ \A k \in Callers :
             (/\ frames[k].pc = "read" /\ frames[k].fn = "updatePlayer"
              /\ frames'[k].pc = "returned")
             => /\ Len(playersFile') = Len(playersFile)
                /\ \A i \in 1..Len(playersFile) :
                      /\ playersFile'[i].id = playersFile[i].id
                      /\ playersFile'[i].username = playersFile[i].username
                      /\ playersFile'[i].createdAt = playersFile[i].createdAt]_vars

\* C26: a call of deletePlayer(id) that finds no record with that id reports
\* that it found none and leaves the file as it was; a call that finds one
\* removes the records with that id and keeps the others, in their order.
C26_DeleteReportsNotFound ==
    [][\A k \in Callers :
          (/\ frames[k].pc = "read" /\ frames[k].fn = "deletePlayer"
           /\ frames'[k].pc = "returned")
          => LET hit == {i \in 1..Len(playersFile) : playersFile[i].id = frames[k].playerId}
             IN IF hit = {}
                THEN /\ frames'[k].ret.kind # "true"
                     /\ playersFile' = playersFile
                ELSE /\ frames'[k].ret.kind = "true"
                     /\ Len(playersFile') = Len(playersFile) - Cardinality(hit)
                     /\ \A i \in 1..Len(playersFile) \ hit :
                           \E j \in 1..Len(playersFile') : playersFile'[j] = playersFile[i]
                     /\ \A j \in 1..Len(playersFile') :
                           playersFile'[j].id # frames[k].playerId]_vars

\* C27: a call of createPlayer for a username that a record of the file
\* already has returns no record and leaves the file as it was.
C27_CreateScansUsernames ==
    [][\A k \in Callers :
          (/\ frames[k].pc = "read" /\ frames[k].fn = "createPlayer"
           /\ frames'[k].pc = "returned"
           /\ \E i \in 1..Len(playersFile) :
                 playersFile[i].username = frames[k].data.username)
          => /\ frames'[k].ret.kind # "player"
             /\ playersFile' = playersFile]_vars

\* C28: at most one call is inside a function of the flat-file store at any
\* time, and a call that returns has worked on the file as it is at that
\* moment: createPlayer appends its record to it, updatePlayer changes the
\* properties it was given in the first record with the id and nothing else,
\* deletePlayer removes the records with the id and nothing else.
C28_MutationsSerialized ==
    /\ [](Cardinality({k \in Callers : frames[k].pc = "read"}) <= 1)
    /\ [][\A k \in Callers :
             (frames[k].pc = "read" /\ frames'[k].pc = "returned")
             => /\ frames[k].players = playersFile
                /\ LET hit == {i \in 1..Len(playersFile) :
                                  playersFile[i].id = frames[k].playerId}
                   IN CASE frames[k].fn = "createPlayer" ->
                             /\ frames'[k].ret.kind = "player"
                             /\ playersFile' = Append(playersFile, frames'[k].ret.value)
                        [] frames[k].fn = "updatePlayer" /\ hit = {} ->
                             playersFile' = playersFile
                        [] frames[k].fn = "updatePlayer" /\ hit # {} ->
                             /\ Len(playersFile') = Len(playersFile)
                             /\ \A i \in 1..Len(playersFile) :
                                   IF i \in hit /\ \A j \in hit : i <= j
                                   THEN \A x \in DOMAIN frames[k].data \ {"password"} :
                                           \/ x \in DOMAIN playersFile'[i]
                                              /\ playersFile'[i][x] = frames[k].data[x]
                                           \/ x \in Optional
                                              /\ frames[k].data[x] = Undefined
                                   ELSE playersFile'[i] = playersFile[i]
                        [] OTHER ->
                             /\ \A j \in 1..Len(playersFile') :
                                   playersFile'[j].id # frames[k].playerId
                             /\ Len(playersFile') = Len(playersFile) - Cardinality(hit)
                             /\ \A i \in 1..Len(playersFile) \ hit :
                                   \E j \in 1..Len(playersFile') :
                                       playersFile'[j] = playersFile[i]]_vars

\* Two calls from two callers have returned, a createPlayer and then an
\* updatePlayer of the record it made, and the file holds the effect of both.
C28_Witness ==
    /\ frames[1].pc = "returned" /\ frames[1].fn = "createPlayer"
    /\ frames[2].pc = "returned" /\ frames[2].fn = "updatePlayer"
    /\ frames[2].ret.kind = "player"
    /\ Len(playersFile) = 1
    /\ playersFile[1].id = frames[1].ret.value.id
    /\ playersFile[1].username = frames[1].ret.value.username
    /\ playersFile[1].level = 5

\* C29: the save of an update leaves every field that its request did not
\* carry at the value the store holds at that moment, whatever value the
\* handler had loaded, and sets a field that it carried to the request's value
\* or leaves it alone; so when the updates on the two connections have both
\* been answered 200 for the same record and carried disjoint sets of fields,
\* the record holds the level, experience, email, score, wins and losses
\* that each of them carried.
C29_FieldLevelLastWriter ==
    /\ [][\A c \in Conns :
             (/\ reqs[c].pc = "save" /\ reqs[c].op = "update"
              /\ reqs'[c].pc = "done" /\ reqs'[c].resp.status = 200)
             => /\ Len(players') = Len(players)
                /\ \A i \in 1..Len(players) :
                      IF players[i]._id # reqs[c].player[1]._id
                      THEN players'[i] = players[i]
                      ELSE \A k \in DOMAIN players[i] :
                              IF k \in Changes(reqs[c].body)
                              THEN k \in PlainFields
                                   => players'[i][k] \in {reqs[c].body[k], players[i][k]}
                              ELSE players'[i][k] = players[i][k]]_vars
    /\ [](\A c, d \in Conns :
             (/\ c # d
              /\ reqs[c].op = "update" /\ reqs[c].pc = "done" /\ reqs[c].resp.status = 200
              /\ reqs[d].op = "update" /\ reqs[d].pc = "done" /\ reqs[d].resp.status = 200
              /\ reqs[c].player[1]._id = reqs[d].player[1]._id
              /\ Changes(reqs[c].body) \cap Changes(reqs[d].body) = {})
             => \A i \in 1..Len(players) :
                   players[i]._id = reqs[c].player[1]._id
                   => \A k \in Changes(reqs[c].body) \cap PlainFields :
                         players[i][k] = reqs[c].body[k])

\* Two updates of one record were in flight together, one carrying the level
\* and the other the score, wins and losses: each was answered 200 with the
\* other's fields as it had loaded them, and the record holds the values of
\* both.
C29_Witness ==
    \E c, d \in Conns :
        /\ reqs[c].op = "update" /\ reqs[c].pc = "done" /\ reqs[c].resp.status = 200
        /\ reqs[d].op = "update" /\ reqs[d].pc = "done" /\ reqs[d].resp.status = 200
        /\ Changes(reqs[c].body) = {"level"}
        /\ Changes(reqs[d].body) = {"score", "wins", "losses"}
        /\ reqs[c].resp.data.score = 0
        /\ reqs[d].resp.data.level = 1
        /\ \E i \in 1..Len(players) :
              /\ players[i]._id = reqs[c].player[1]._id
              /\ players[i]._id = reqs[d].player[1]._id
              /\ players[i].level = 5
              /\ players[i].score = 3
              /\ players[i].wins = 1

\* C30: the save of an update or of a login whose record is no longer stored
\* when it runs is answered 404.
C30_VanishedIsNotFound ==
    [][\A c \in Conns :
          (/\ reqs[c].op \in {"update", "login"}
           /\ reqs[c].pc = "save" /\ reqs'[c].pc = "done"
           /\ \A i \in 1..Len(players) : players[i]._id # reqs[c].player[1]._id)
          => reqs'[c].resp.status = 404]_vars

\* r lacks a field its handler requires: the username or password of a
\* register or login, the id and username or the credential of a fetch, an
\* update or a delete.
Missing(r) ==
    CASE r.op \in {"register", "login"} ->
            Falsy(r.body, "username") \/ Falsy(r.body, "password")
      [] r.op \in {"fetch", "update", "delete"} ->
            \/ Falsy(Params(r), "id") /\ Falsy(Params(r), "username")
            \/ Falsy(Params(r), Secret(r))
      [] OTHER -> FALSE

C32_AlwaysAnswered ==
    /\ \A c \in Conns : (reqs[c].pc \notin {"idle", "done"}) ~> (reqs[c].pc = "done")
    /\ [](\A c \in Conns :
             /\ reqs[c].pc \notin {"idle", "done"} => reqs[c].resp = NoResp
             /\ reqs[c].pc = "done" => reqs[c].resp.status \in {200, 201, 400, 401, 403, 404, 409, 500}
             /\ (reqs[c].pc = "done" /\ Has(reqs[c].resp, "error")
                 /\ reqs[c].resp.error = StoreError) => reqs[c].resp.status = 500)
    /\ [][\A c \in Conns :
             /\ reqs[c].pc = "done" => (reqs'[c] = reqs[c] \/ reqs'[c] = Idle)
             /\ (reqs[c].pc \notin {"idle", "done"} /\ reqs'[c].pc = "done")
                => reqs'[c].resp.status \in {200, 201, 500}]_vars

\* The store rejected the save of an update, which was answered 500 with
\* the catch block's message, and the record is as it was.
C32_Witness ==
    \E c \in Conns :
        /\ reqs[c].op = "update" /\ reqs[c].pc = "done"
        /\ reqs[c].resp.status = 500
        /\ reqs[c].resp.error = StoreError
        /\ reqs[c].dirty = {"level"}
        /\ \E i \in 1..Len(players) :
              players[i]._id = reqs[c].player[1]._id /\ players[i].level = 1

\* C37: the save of an update and the deleteOne of a delete change the store
\* only if the credential the request presented verifies against the password
\* the record holds at that moment.
C37_CredentialAtPersist ==
    [][\A c \in Conns :
          (/\ reqs[c].op \in {"update", "delete"}
           /\ reqs[c].pc \in {"save", "delete"}
           /\ reqs'[c].pc = "done"
           /\ players' # players)
          => \E i \in 1..Len(players) :
                /\ players[i]._id = reqs[c].player[1]._id
                /\ players[i].password \in HashesOf(Params(reqs[c])[Secret(reqs[c])])]_vars

\* The credentials a player of the device has typed or the store holds: the
\* plaintext passwords and their bcrypt hashes.
Credentials == UIPasswords \cup UNION {HashesOf(p) : p \in UIPasswords}

\* C33: after a register or login has completed, no mirror file has a
\* password field holding a plaintext or hashed credential, and no
\* PlayerPrefs entry of the player holds one.
C33_MirrorHoldsNoCredential ==
    www[1].state = "completed" /\ www[1].op \in {"register", "login"}
    => /\ \A u \in Users :
             ui.files[u] # << >> /\ Has(ui.files[u][1], "password")
             => ui.files[u][1].password \notin Credentials
       /\ \A k \in DOMAIN pm.prefs \cap {"player_id", "player_username", "CurrentUser"} :
             pm.prefs[k] \notin Credentials
       /\ DOMAIN pm.prefs \cap {"password", "player_password"} = {}

\* C36: when the response to a register or login started by GameUIManager is
\* a rejection of the service (400, 401 or 409), the feedback text shown
\* after it contains the message of that response verbatim.
C36_FeedbackCarriesMessage ==
    [][(/\ www[1].via = "ui" /\ www[1].state = "sent"
        /\ www'[1].state = "completed" /\ www'[1].result = "ProtocolError"
        /\ reqs[1].pc = "done" /\ reqs[1].resp.status \in {400, 401, 409})
       => \E i \in 1..Len(ui'.feedback) : ui'.feedback[i] = reqs[1].resp.message]_vars

\* C35: a round reported as won or lost on the panel a successful login
\* leaves, with the player still logged in, adds one to the mirrored wins or
\* losses of that player, applies the score rule to the mirrored score, and
\* sends one update to the service.
C35_OutcomeMirroredAndSent ==
    [][(/\ IsPlayerLoggedIn(pm) /\ GetCurrentPlayer(pm) # << >>
        /\ ui.panel = "opponentName" /\ ui'.panel \in {"winPanel", "losePanel"})
       => LET u == GetCurrentPlayer(pm)[1].username
              before == ui.files[u][1]
              after == ui'.files[u][1]
          IN /\ ui.files[u] # << >> /\ ui'.files[u] # << >>
             /\ IF ui'.panel = "winPanel"
                THEN /\ after.wins = before.wins + 1 /\ after.losses = before.losses
                     /\ after.score = before.score + 1
                ELSE /\ after.losses = before.losses + 1 /\ after.wins = before.wins
                     /\ after.score = IF before.score = 0 THEN 0 ELSE before.score - 1
             /\ www'[1].op = "update" /\ www'[1].state = "sent"]_vars

\* C34: the mirror file of an account is deleted only in the step that
\* handles the service's successful answer to a delete request, which the
\* service gives after verifying the credential the request presented.
C34_DeleteVerifiedByService ==
    [][\A u \in Users :
          ui.files[u] # << >> /\ ui'.files[u] = << >>
          => /\ www[1].op = "delete" /\ www[1].state = "sent"
             /\ reqs[1].pc = "done" /\ reqs[1].resp.status = 200
             /\ www'[1].state = "completed"]_vars

\* C38: the response to a login, refresh or update that was sent before
\* PlayerManager.Logout() and is handled after it leaves GetCurrentPlayer() null and
\* IsPlayerLoggedIn() false.
C38_LogoutOutlivesResponses ==
    [][\A c \in Conns :
          /\ www[c].op \in {"login", "fetch", "update"}
          /\ www[c].state = "sent" /\ www[c].loggedOut /\ www'[c].state = "completed"
          => GetCurrentPlayer(pm') = << >> /\ ~IsPlayerLoggedIn(pm')]_vars

\* C39: in the minigame neither HP is ever negative, and the poisoned drinks
\* left are never more than the drinks left, which are never more than a
\* batch holds.
C39_GameBounds ==
    /\ ui.playerHP >= 0 /\ ui.opponentHP >= 0
    /\ 0 <= ui.poisonedLeft /\ ui.poisonedLeft <= ui.drinksLeft
    /\ ui.drinksLeft <= totalDrinksInBatch

\* Each step of the minigame lowers at most one HP, by exactly one, and
\* raises none, unless the scene is loaded again; the player's clicks change
\* the game only on the player's turn and the opponent's move only on the
\* opponent's; once an HP is 0 only loading the scene again changes the HP,
\* the batch or the turn.
GameStepsInTurn ==
    [][LET reload == ui.restartButton /\ ~ui'.restartButton
           hp == <<ui.playerHP, ui.opponentHP>>
           game == <<ui.playerHP, ui.opponentHP, ui.drinksLeft, ui.poisonedLeft, ui.isPlayerTurn>>
       IN ~reload /\ ui.panel = "gamePanel"
          => /\ \/ hp' = hp
                \/ ui'.playerHP = ui.playerHP - 1 /\ ui'.opponentHP = ui.opponentHP
                \/ ui'.opponentHP = ui.opponentHP - 1 /\ ui'.playerHP = ui.playerHP
             /\ game' # game => (ui.opponentWaits <=> ~ui.isPlayerTurn)
             /\ IsGameOver(ui) => game' = game]_vars

====
